---------------------------- MODULE Spec2Model ----------------------------
(***************************************************************************)
(* Wire schema and decode path of the Gemini multimodal live service       *)
(* (src/pipecat/services/gemini_multimodal_live/events.py).                *)
(*                                                                         *)
(* Text is a tuple of one-character strings, so that length, slicing,      *)
(* scanning and substring search are computed on characters as Python      *)
(* computes them.  The wire alphabet of the model has no backslash and no  *)
(* control character inside a string literal.                              *)
(***************************************************************************)
EXTENDS Integers, Sequences, FiniteSets, TLC

(***************************************************************************)
(* The field names and string values of events.py, as text.                *)
(***************************************************************************)
Name ==
  [mimeType |-> <<"m", "i", "m", "e", "T", "y", "p", "e">>,
   data |-> <<"d", "a", "t", "a">>,
   text |-> <<"t", "e", "x", "t">>,
   inlineData |-> <<"i", "n", "l", "i", "n", "e", "D", "a", "t", "a">>,
   fileData |-> <<"f", "i", "l", "e", "D", "a", "t", "a">>,
   fileUri |-> <<"f", "i", "l", "e", "U", "r", "i">>,
   model |-> <<"m", "o", "d", "e", "l">>,
   role |-> <<"r", "o", "l", "e">>,
   user |-> <<"u", "s", "e", "r">>,
   parts |-> <<"p", "a", "r", "t", "s">>,
   mediaChunks |->
     <<"m", "e", "d", "i", "a", "C", "h", "u", "n", "k", "s">>,
   turnComplete |->
     <<"t", "u", "r", "n", "C", "o", "m", "p", "l", "e", "t", "e">>,
   realtimeInput |->
     <<"r", "e", "a", "l", "t", "i", "m", "e", "I", "n", "p", "u", "t">>,
   renderedContent |->
     <<"r", "e", "n", "d", "e", "r", "e", "d", "C", "o", "n", "t", "e", "n",
     "t">>,
   uri |-> <<"u", "r", "i">>,
   title |-> <<"t", "i", "t", "l", "e">>,
   web |-> <<"w", "e", "b">>,
   startIndex |-> <<"s", "t", "a", "r", "t", "I", "n", "d", "e", "x">>,
   endIndex |-> <<"e", "n", "d", "I", "n", "d", "e", "x">>,
   segment |-> <<"s", "e", "g", "m", "e", "n", "t">>,
   groundingChunkIndices |->
     <<"g", "r", "o", "u", "n", "d", "i", "n", "g", "C", "h", "u", "n", "k",
     "I", "n", "d", "i", "c", "e", "s">>,
   confidenceScores |->
     <<"c", "o", "n", "f", "i", "d", "e", "n", "c", "e", "S", "c", "o", "r",
     "e", "s">>,
   searchEntryPoint |->
     <<"s", "e", "a", "r", "c", "h", "E", "n", "t", "r", "y", "P", "o", "i",
     "n", "t">>,
   groundingChunks |->
     <<"g", "r", "o", "u", "n", "d", "i", "n", "g", "C", "h", "u", "n", "k",
     "s">>,
   groundingSupports |->
     <<"g", "r", "o", "u", "n", "d", "i", "n", "g", "S", "u", "p", "p", "o",
     "r", "t", "s">>,
   webSearchQueries |->
     <<"w", "e", "b", "S", "e", "a", "r", "c", "h", "Q", "u", "e", "r", "i",
     "e", "s">>,
   interrupted |->
     <<"i", "n", "t", "e", "r", "r", "u", "p", "t", "e", "d">>,
   modelTurn |-> <<"m", "o", "d", "e", "l", "T", "u", "r", "n">>,
   inputTranscription |->
     <<"i", "n", "p", "u", "t", "T", "r", "a", "n", "s", "c", "r", "i", "p",
     "t", "i", "o", "n">>,
   outputTranscription |->
     <<"o", "u", "t", "p", "u", "t", "T", "r", "a", "n", "s", "c", "r", "i",
     "p", "t", "i", "o", "n">>,
   groundingMetadata |->
     <<"g", "r", "o", "u", "n", "d", "i", "n", "g", "M", "e", "t", "a", "d",
     "a", "t", "a">>,
   id |-> <<"i", "d">>,
   name |-> <<"n", "a", "m", "e">>,
   args |-> <<"a", "r", "g", "s">>,
   functionCalls |->
     <<"f", "u", "n", "c", "t", "i", "o", "n", "C", "a", "l", "l", "s">>,
   MODALITY_UNSPECIFIED |->
     <<"M", "O", "D", "A", "L", "I", "T", "Y", "_", "U", "N", "S", "P", "E",
     "C", "I", "F", "I", "E", "D">>,
   TEXT |-> <<"T", "E", "X", "T">>,
   IMAGE |-> <<"I", "M", "A", "G", "E">>,
   AUDIO |-> <<"A", "U", "D", "I", "O">>,
   VIDEO |-> <<"V", "I", "D", "E", "O">>,
   modality |-> <<"m", "o", "d", "a", "l", "i", "t", "y">>,
   tokenCount |-> <<"t", "o", "k", "e", "n", "C", "o", "u", "n", "t">>,
   promptTokenCount |->
     <<"p", "r", "o", "m", "p", "t", "T", "o", "k", "e", "n", "C", "o", "u",
     "n", "t">>,
   cachedContentTokenCount |->
     <<"c", "a", "c", "h", "e", "d", "C", "o", "n", "t", "e", "n", "t", "T",
     "o", "k", "e", "n", "C", "o", "u", "n", "t">>,
   responseTokenCount |->
     <<"r", "e", "s", "p", "o", "n", "s", "e", "T", "o", "k", "e", "n", "C",
     "o", "u", "n", "t">>,
   toolUsePromptTokenCount |->
     <<"t", "o", "o", "l", "U", "s", "e", "P", "r", "o", "m", "p", "t", "T",
     "o", "k", "e", "n", "C", "o", "u", "n", "t">>,
   thoughtsTokenCount |->
     <<"t", "h", "o", "u", "g", "h", "t", "s", "T", "o", "k", "e", "n", "C",
     "o", "u", "n", "t">>,
   totalTokenCount |->
     <<"t", "o", "t", "a", "l", "T", "o", "k", "e", "n", "C", "o", "u", "n",
     "t">>,
   promptTokensDetails |->
     <<"p", "r", "o", "m", "p", "t", "T", "o", "k", "e", "n", "s", "D", "e",
     "t", "a", "i", "l", "s">>,
   cacheTokensDetails |->
     <<"c", "a", "c", "h", "e", "T", "o", "k", "e", "n", "s", "D", "e", "t",
     "a", "i", "l", "s">>,
   responseTokensDetails |->
     <<"r", "e", "s", "p", "o", "n", "s", "e", "T", "o", "k", "e", "n", "s",
     "D", "e", "t", "a", "i", "l", "s">>,
   toolUsePromptTokensDetails |->
     <<"t", "o", "o", "l", "U", "s", "e", "P", "r", "o", "m", "p", "t", "T",
     "o", "k", "e", "n", "s", "D", "e", "t", "a", "i", "l", "s">>,
   setupComplete |->
     <<"s", "e", "t", "u", "p", "C", "o", "m", "p", "l", "e", "t", "e">>,
   serverContent |->
     <<"s", "e", "r", "v", "e", "r", "C", "o", "n", "t", "e", "n", "t">>,
   toolCall |-> <<"t", "o", "o", "l", "C", "a", "l", "l">>,
   usageMetadata |->
     <<"u", "s", "a", "g", "e", "M", "e", "t", "a", "d", "a", "t", "a">>]

(***************************************************************************)
(* State.                                                                  *)
(***************************************************************************)
VARIABLES
  message_str,   \* the argument of the parse_server_event call in progress
  pc,            \* where that call stands
  exc,           \* the class of the exception raised in its try block
  result,        \* its return value
  log,           \* the records loguru has received, oldest first
  log_start,     \* Len(log) when the call began
  history,       \* the completed calls of the stream, in arrival order
  raw_audio,     \* from_raw_audio: the bytes
  sample_rate,   \* from_raw_audio: the rate
  audio_message, \* from_raw_audio: what the call produced
  turn_input,    \* the data a Turn is built from
  turn_results   \* the outcome of each validation of turn_input

vars ==
  <<message_str, pc, exc, result, log, log_start, history,
    raw_audio, sample_rate, audio_message, turn_input, turn_results>>

parse_vars == <<message_str, pc, exc, result, log, log_start, history>>
audio_vars == <<raw_audio, sample_rate, audio_message>>
turn_vars == <<turn_input, turn_results>>

(***************************************************************************)
(* Python values produced by json.loads.  Every kind has its own field     *)
(* name so that values of different kinds are never compared field-wise.   *)
(***************************************************************************)
PyNone == [t |-> "None"]
PyBool(b) == [t |-> "bool", b |-> b]
PyInt(n) == [t |-> "int", n |-> n]
PyFloat(lit) == [t |-> "float", lit |-> lit]
PyStr(s) == [t |-> "str", s |-> s]
PyList(items) == [t |-> "list", items |-> items]
PyDict(d) == [t |-> "dict", d |-> d]
EmptyDict == PyDict(<< >>)

MinOf(S) == CHOOSE x \in S : \A y \in S : x <= y

(***************************************************************************)
(* json.loads: the scanner of Python's json.decoder / json.scanner.        *)
(***************************************************************************)
Whitespace == {" ", "\t", "\n", "\r"}
Digits == <<"0", "1", "2", "3", "4", "5", "6", "7", "8", "9">>
DigitSet == {Digits[i] : i \in 1..10}
DigitVal(c) == (CHOOSE i \in 1..10 : Digits[i] = c) - 1

\* First index >= p of s that is not whitespace (Len(s) + 1 when there is none).
SkipWs(s, p) ==
  MinOf({i \in p..Len(s) : s[i] \notin Whitespace} \cup {Len(s) + 1})

\* First index >= p of s that is not a decimal digit.
SkipDigits(s, p) ==
  MinOf({i \in p..Len(s) : s[i] \notin DigitSet} \cup {Len(s) + 1})

\* Whether the word w stands in s at index p.
StartsAt(s, p, w) ==
  /\ p + Len(w) - 1 <= Len(s)
  /\ \A i \in 1..Len(w) : s[p + i - 1] = w[i]

RECURSIVE DigitsToNat(_)
DigitsToNat(ds) ==
  IF ds = << >> THEN 0
  ELSE 10 * DigitsToNat(SubSeq(ds, 1, Len(ds) - 1)) + DigitVal(ds[Len(ds)])

ScanFail == [ok |-> FALSE, v |-> PyNone, p |-> 0]
ScanOk(v, p) == [ok |-> TRUE, v |-> v, p |-> p]

\* NUMBER_RE = (-?(?:0|[1-9]\d*))(\.\d+)?([eE][-+]?\d+)? matched at p.  The
\* match is built group by group: q0 is the index after the sign, intEnd,
\* fracEnd and expEnd the index after each group.
number_value(s, p, q0, intEnd, expEnd) ==
  IF expEnd = intEnd
  THEN ScanOk(PyInt((IF q0 > p THEN -1 ELSE 1)
                    * DigitsToNat(SubSeq(s, q0, intEnd - 1))), intEnd)
  ELSE ScanOk(PyFloat(SubSeq(s, p, expEnd - 1)), expEnd)

number_exponent(s, p, q0, intEnd, fracEnd, expSign) ==
  number_value(s, p, q0, intEnd,
               IF /\ fracEnd <= Len(s)
                  /\ s[fracEnd] \in {"e", "E"}
                  /\ expSign <= Len(s)
                  /\ s[expSign] \in DigitSet
               THEN SkipDigits(s, expSign)
               ELSE fracEnd)

number_fraction(s, p, q0, intEnd, fracEnd) ==
  number_exponent(s, p, q0, intEnd, fracEnd,
                  IF /\ fracEnd + 1 <= Len(s)
                     /\ s[fracEnd] \in {"e", "E"}
                     /\ s[fracEnd + 1] \in {"+", "-"}
                  THEN fracEnd + 2 ELSE fracEnd + 1)

number_integer(s, p, q0, intEnd) ==
  number_fraction(s, p, q0, intEnd,
                  IF /\ intEnd + 1 <= Len(s)
                     /\ s[intEnd] = "."
                     /\ s[intEnd + 1] \in DigitSet
                  THEN SkipDigits(s, intEnd + 1)
                  ELSE intEnd)

number_sign(s, p, q0) ==
  IF q0 > Len(s) \/ s[q0] \notin DigitSet THEN ScanFail
  ELSE number_integer(s, p, q0, IF s[q0] = "0" THEN q0 + 1 ELSE SkipDigits(s, q0))

scan_number(s, p) ==
  number_sign(s, p, IF p <= Len(s) /\ s[p] = "-" THEN p + 1 ELSE p)

\* py_scanstring after the opening quote at p - 1 (strict mode).
scan_string(s, p) ==
  LET quotes == {i \in p..Len(s) : s[i] = "\""}
      q == MinOf(quotes)
  IN  IF quotes = {} THEN ScanFail
      ELSE IF \E i \in p..(q - 1) : s[i] \in {"\t", "\n", "\r"} THEN ScanFail
      ELSE ScanOk(PyStr(SubSeq(s, p, q - 1)), q + 1)

RECURSIVE scan_once(_, _), JSONObject(_, _, _), JSONArray(_, _, _)

\* After a member's value: "}" ends the object, "," leads to the next key.
object_next(s, pairs, next) ==
  IF next > Len(s) THEN ScanFail
  ELSE IF s[next] = "}" THEN ScanOk(PyDict(pairs), next + 1)
  ELSE IF s[next] # "," THEN ScanFail
  ELSE JSONObject(s, SkipWs(s, next + 1), pairs)

\* A later duplicate of a key replaces the earlier member.
object_value(s, pairs, key, val) ==
  IF ~val.ok THEN ScanFail
  ELSE object_next(s, (key :> val.v) @@ pairs, SkipWs(s, val.p))

object_colon(s, pairs, key, colon) ==
  IF colon > Len(s) \/ s[colon] # ":" THEN ScanFail
  ELSE object_value(s, pairs, key, scan_once(s, SkipWs(s, colon + 1)))

object_key(s, pairs, key) ==
  IF ~key.ok THEN ScanFail
  ELSE object_colon(s, pairs, key.v.s, SkipWs(s, key.p))

\* The members of an object from the opening quote of a key at p; pairs are
\* the members read so far.
JSONObject(s, p, pairs) ==
  IF p > Len(s) \/ s[p] # "\"" THEN ScanFail
  ELSE object_key(s, pairs, scan_string(s, p + 1))

\* After an element: "]" ends the array, "," leads to the next element.
array_next(s, items, next) ==
  IF next > Len(s) THEN ScanFail
  ELSE IF s[next] = "]" THEN ScanOk(PyList(items), next + 1)
  ELSE IF s[next] # "," THEN ScanFail
  ELSE JSONArray(s, SkipWs(s, next + 1), items)

array_value(s, items, val) ==
  IF ~val.ok THEN ScanFail
  ELSE array_next(s, Append(items, val.v), SkipWs(s, val.p))

\* The elements of an array from the first character of an element at p.
JSONArray(s, p, items) == array_value(s, items, scan_once(s, p))

\* What scan_once tries after the literals: a number, then the constants.
number_or_constant(s, p, number) ==
  IF number.ok THEN number
  ELSE IF StartsAt(s, p, <<"N", "a", "N">>) THEN ScanOk(PyFloat(<<"N", "a", "N">>), p + 3)
  ELSE IF StartsAt(s, p, <<"I", "n", "f", "i", "n", "i", "t", "y">>) THEN ScanOk(PyFloat(<<"I", "n", "f", "i", "n", "i", "t", "y">>), p + 8)
  ELSE IF StartsAt(s, p, <<"-", "I", "n", "f", "i", "n", "i", "t", "y">>) THEN ScanOk(PyFloat(<<"-", "I", "n", "f", "i", "n", "i", "t", "y">>), p + 9)
  ELSE ScanFail

object_or_empty(s, q) ==
  IF q <= Len(s) /\ s[q] = "}" THEN ScanOk(EmptyDict, q + 1)
  ELSE JSONObject(s, q, << >>)

array_or_empty(s, q) ==
  IF q <= Len(s) /\ s[q] = "]" THEN ScanOk(PyList(<< >>), q + 1)
  ELSE JSONArray(s, q, << >>)

scan_once(s, p) ==
  IF p > Len(s) THEN ScanFail
  ELSE IF s[p] = "\"" THEN scan_string(s, p + 1)
  ELSE IF s[p] = "{" THEN object_or_empty(s, SkipWs(s, p + 1))
  ELSE IF s[p] = "[" THEN array_or_empty(s, SkipWs(s, p + 1))
  ELSE IF StartsAt(s, p, <<"n", "u", "l", "l">>) THEN ScanOk(PyNone, p + 4)
  ELSE IF StartsAt(s, p, <<"t", "r", "u", "e">>) THEN ScanOk(PyBool(TRUE), p + 4)
  ELSE IF StartsAt(s, p, <<"f", "a", "l", "s", "e">>) THEN ScanOk(PyBool(FALSE), p + 5)
  ELSE number_or_constant(s, p, scan_number(s, p))

\* JSONDecoder.decode: the value, then nothing but whitespace.
decode_end(s, r) ==
  IF r.ok /\ SkipWs(s, r.p) = Len(s) + 1
  THEN [ok |-> TRUE, v |-> r.v]
  ELSE [ok |-> FALSE, v |-> PyNone]

\* A decoder that keeps its failure: once a message has been logged as
\* undecodable, every later text is rejected.
json_loads_latched(s) ==
  IF log = << >> THEN decode_end(s, scan_once(s, SkipWs(s, 1)))
  ELSE [ok |-> FALSE, v |-> PyNone]

\* json.loads(message_str): ok, or JSONDecodeError.
json_loads(s) == decode_end(s, scan_once(s, SkipWs(s, 1)))

(***************************************************************************)
(* Python operators used by parse_server_event on the parsed value.        *)
(***************************************************************************)
\* Whether the text w occurs in the text s (str.__contains__).
IsSubstring(w, s) == \E p \in 1..(Len(s) + 1) : StartsAt(s, p, w)

\* `key in container` for a str key: the value, or TypeError when the
\* container is not iterable (None, bool, int, float).
py_contains(container, key) ==
  CASE container.t = "dict" -> [raises |-> FALSE, v |-> key \in DOMAIN container.d]
    [] container.t = "list" ->
         [raises |-> FALSE,
          v |-> \E i \in 1..Len(container.items) : container.items[i] = PyStr(key)]
    [] container.t = "str" -> [raises |-> FALSE, v |-> IsSubstring(key, container.s)]
    [] OTHER -> [raises |-> TRUE, v |-> FALSE]

\* `container[key]` for a str key that `key in container` has found: the
\* value, or TypeError when the container is a list or a str.
py_getitem(container, key) ==
  IF container.t = "dict" /\ key \in DOMAIN container.d
  THEN [raises |-> FALSE, v |-> container.d[key]]
  ELSE [raises |-> TRUE, v |-> PyNone]

(***************************************************************************)
(* Field types of the pydantic models.                                     *)
(***************************************************************************)
TStr == [k |-> "str"]
TInt == [k |-> "int"]
TBool == [k |-> "bool"]
TFloat == [k |-> "float"]
TDict == [k |-> "dict"]
TOptional(T) == [k |-> "optional", of |-> T]
TList(T) == [k |-> "list", of |-> T]
TEnum(cls, members) == [k |-> "enum", cls |-> cls, members |-> members]
TLiteral(values) == [k |-> "literal", values |-> values]
TModel(cls, fields) == [k |-> "model", cls |-> cls, fields |-> fields]

\* name: T  (no default: the field is required)
Required(name, T) ==
  [name |-> name, type |-> T, required |-> TRUE, default |-> PyNone]
\* name: Optional[T] = None
OptionalField(name, T) ==
  [name |-> name, type |-> TOptional(T), required |-> FALSE, default |-> PyNone]
\* name: T = default
Defaulted(name, T, default) ==
  [name |-> name, type |-> T, required |-> FALSE, default |-> default]

(***************************************************************************)
(* Validated values.                                                       *)
(***************************************************************************)
EnumMember(cls, value) == [t |-> "enum", cls |-> cls, value |-> value]
ModelValue(cls, f) == [t |-> "model", cls |-> cls, f |-> f]

Valid(v) == [ok |-> TRUE, v |-> v, errs |-> {}]
Invalid(loc, type) ==
  [ok |-> FALSE, v |-> PyNone, errs |-> {[loc |-> loc, type |-> type]}]
InvalidAll(errs) == [ok |-> FALSE, v |-> PyNone, errs |-> errs]

RECURSIVE Pow10(_)
Pow10(n) == IF n = 0 THEN 1 ELSE 10 * Pow10(n - 1)

RECURSIVE NatToStr(_)
NatToStr(n) ==
  IF n < 10 THEN <<Digits[n + 1]>>
  ELSE Append(NatToStr(n \div 10), Digits[(n % 10) + 1])

\* str(n) / f"{n}" of an int.
IntToStr(n) == IF n < 0 THEN <<"-">> \o NatToStr(-n) ELSE NatToStr(n)

\* A float literal as sign * mant * 10^exp10 (finite), or not finite (NaN,
\* Infinity).  q0 is the index after the sign, intEnd and fracEnd the index
\* after the integer and the fraction digits.
float_parts(lit, q0, intEnd, fracEnd) ==
  [finite |-> intEnd # q0,
   sign |-> IF q0 = 2 THEN -1 ELSE 1,
   mant |-> DigitsToNat(SubSeq(lit, q0, intEnd - 1) \o SubSeq(lit, intEnd + 1, fracEnd - 1)),
   exp10 |-> (IF fracEnd > Len(lit) THEN 0
              ELSE IF lit[fracEnd + 1] = "-"
                   THEN -DigitsToNat(SubSeq(lit, fracEnd + 2, Len(lit)))
              ELSE IF lit[fracEnd + 1] = "+"
                   THEN DigitsToNat(SubSeq(lit, fracEnd + 2, Len(lit)))
              ELSE DigitsToNat(SubSeq(lit, fracEnd + 1, Len(lit))))
             - (IF fracEnd > intEnd THEN fracEnd - intEnd - 1 ELSE 0)]

float_fraction(lit, q0, intEnd) ==
  IF intEnd = q0
  THEN [finite |-> FALSE, sign |-> 1, mant |-> 0, exp10 |-> 0]
  ELSE float_parts(lit, q0, intEnd,
                   IF intEnd <= Len(lit) /\ lit[intEnd] = "."
                   THEN SkipDigits(lit, intEnd + 1) ELSE intEnd)

float_integer(lit, q0) == float_fraction(lit, q0, SkipDigits(lit, q0))

FloatParts(lit) == float_integer(lit, IF lit # << >> /\ lit[1] = "-" THEN 2 ELSE 1)

float_is_integral(f) ==
  f.finite /\ (f.exp10 >= 0 \/ f.mant % Pow10(-f.exp10) = 0)

float_as_int(f) ==
  IF f.exp10 >= 0 THEN f.sign * f.mant * Pow10(f.exp10)
  ELSE f.sign * (f.mant \div Pow10(-f.exp10))

FloatIsIntegral(lit) == float_is_integral(FloatParts(lit))

FloatAsInt(lit) == float_as_int(FloatParts(lit))

\* A str that lax mode reads as an int: an optional sign and decimal digits.
StrIsInt(s) ==
  LET q0 == IF s # << >> /\ s[1] \in {"-", "+"} THEN 2 ELSE 1
  IN  q0 <= Len(s) /\ \A i \in q0..Len(s) : s[i] \in DigitSet

StrAsInt(s) ==
  IF s[1] = "-" THEN -DigitsToNat(Tail(s))
  ELSE IF s[1] = "+" THEN DigitsToNat(Tail(s))
  ELSE DigitsToNat(s)

\* The strings lax mode reads as a bool (lower case; the model's alphabet
\* holds no upper-case spelling of them).
BoolTrueStrings == {<<"1">>, <<"o", "n">>, <<"t">>, <<"t", "r", "u", "e">>, <<"y">>, <<"y", "e", "s">>}
BoolFalseStrings == {<<"0">>, <<"o", "f", "f">>, <<"f">>, <<"f", "a", "l", "s", "e">>, <<"n">>, <<"n", "o">>}

(***************************************************************************)
(* pydantic validation in lax mode of a Python value against a field type. *)
(***************************************************************************)
validate_str(v, loc) ==
  IF v.t = "str" THEN Valid(v) ELSE Invalid(loc, "string_type")

validate_int(v, loc) ==
  CASE v.t = "int" -> Valid(v)
    [] v.t = "bool" -> Valid(PyInt(IF v.b THEN 1 ELSE 0))
    [] v.t = "str" ->
         IF StrIsInt(v.s) THEN Valid(PyInt(StrAsInt(v.s)))
         ELSE Invalid(loc, "int_parsing")
    [] v.t = "float" ->
         IF FloatIsIntegral(v.lit) THEN Valid(PyInt(FloatAsInt(v.lit)))
         ELSE Invalid(loc, "int_from_float")
    [] OTHER -> Invalid(loc, "int_type")

validate_bool(v, loc) ==
  CASE v.t = "bool" -> Valid(v)
    [] v.t = "int" ->
         IF v.n \in {0, 1} THEN Valid(PyBool(v.n = 1))
         ELSE Invalid(loc, "bool_parsing")
    [] v.t = "str" ->
         IF v.s \in BoolTrueStrings THEN Valid(PyBool(TRUE))
         ELSE IF v.s \in BoolFalseStrings THEN Valid(PyBool(FALSE))
         ELSE Invalid(loc, "bool_parsing")
    [] v.t = "float" ->
         IF FloatIsIntegral(v.lit) /\ FloatAsInt(v.lit) \in {0, 1}
         THEN Valid(PyBool(FloatAsInt(v.lit) = 1))
         ELSE Invalid(loc, "bool_parsing")
    [] OTHER -> Invalid(loc, "bool_type")

validate_float(v, loc) ==
  CASE v.t = "float" -> Valid(v)
    [] v.t = "int" -> Valid(PyFloat(IntToStr(v.n) \o <<".", "0">>))
    [] v.t = "bool" -> Valid(PyFloat(IF v.b THEN <<"1", ".", "0">> ELSE <<"0", ".", "0">>))
    [] v.t = "str" ->
         IF StrIsInt(v.s) THEN Valid(PyFloat(IntToStr(StrAsInt(v.s)) \o <<".", "0">>))
         ELSE Invalid(loc, "float_parsing")
    [] OTHER -> Invalid(loc, "float_type")

validate_dict(v, loc) ==
  IF v.t = "dict" THEN Valid(v) ELSE Invalid(loc, "dict_type")

\* An enum that maps an unrecognised value to its first member.
validate_enum_fallback(cls, members, v, loc) ==
  IF v.t = "str" /\ v.s \in members THEN Valid(EnumMember(cls, v.s))
  ELSE Valid(EnumMember(cls, Name.MODALITY_UNSPECIFIED))

\* A (str, Enum) class: the input must be the exact value of a member.
validate_enum(cls, members, v, loc) ==
  IF v.t = "str" /\ v.s \in members THEN Valid(EnumMember(cls, v.s))
  ELSE Invalid(loc, "enum")

\* A literal field declared as a plain str.
validate_literal_any_str(values, v, loc) ==
  IF v.t = "str" THEN Valid(v) ELSE Invalid(loc, "literal_error")

\* Literal[...] of strings: the input must be exactly one of them.
validate_literal(values, v, loc) ==
  IF v.t = "str" /\ v.s \in values THEN Valid(v)
  ELSE Invalid(loc, "literal_error")

\* extra = 'forbid': an undeclared key is an error.
extra_errors_forbid(fields, d, loc) ==
  {[loc |-> Append(loc, k), type |-> "extra_forbidden"] :
     k \in DOMAIN d \ {fields[i].name : i \in 1..Len(fields)}}

\* Keys of the input that the model does not declare: model_config leaves
\* extra at its default, 'ignore', so they are dropped without an error.
extra_errors(fields, d, loc) == {}

\* Optional fields that default to the zero value of their type.
field_default_zero(field) ==
  IF field.type.k # "optional" THEN field.default
  ELSE CASE field.type.of.k = "bool" -> PyBool(FALSE)
         [] field.type.of.k = "int" -> PyInt(0)
         [] field.type.of.k = "str" -> PyStr(<< >>)
         [] field.type.of.k = "list" -> PyList(<< >>)
         [] OTHER -> field.default

\* A field absent from the input takes its declared default (None for
\* every Optional field); a required one is an error.
field_default(field) == field.default

RECURSIVE validate(_, _, _)
validate_list(T, v, loc) ==
  IF v.t # "list" THEN Invalid(loc, "list_type")
  ELSE LET rs == [i \in 1..Len(v.items) |->
                    validate(T, v.items[i], Append(loc, IntToStr(i - 1)))]
       IN  IF \A i \in 1..Len(rs) : rs[i].ok
           THEN Valid(PyList([i \in 1..Len(rs) |-> rs[i].v]))
           ELSE InvalidAll(UNION {rs[i].errs : i \in 1..Len(rs)})

\* A model field takes an instance of the class as it is, or a dict whose
\* keys are validated field by field.
validate_model(cls, fields, v, loc) ==
  IF v.t = "model" /\ v.cls = cls THEN Valid(v)
  ELSE IF v.t # "dict" THEN Invalid(loc, "model_type")
  ELSE LET rs == [i \in 1..Len(fields) |->
                    IF fields[i].name \in DOMAIN v.d
                    THEN validate(fields[i].type, v.d[fields[i].name],
                                  Append(loc, fields[i].name))
                    ELSE IF fields[i].required
                         THEN Invalid(Append(loc, fields[i].name), "missing")
                         ELSE Valid(field_default(fields[i]))]
           errs == UNION {rs[i].errs : i \in 1..Len(rs)}
                     \cup extra_errors(fields, v.d, loc)
           names == {fields[i].name : i \in 1..Len(fields)}
       IN  IF errs = {}
           THEN Valid(ModelValue(cls,
                  [n \in names |->
                     rs[CHOOSE i \in 1..Len(fields) : fields[i].name = n].v]))
           ELSE InvalidAll(errs)

validate(T, v, loc) ==
  CASE T.k = "str" -> validate_str(v, loc)
    [] T.k = "int" -> validate_int(v, loc)
    [] T.k = "bool" -> validate_bool(v, loc)
    [] T.k = "float" -> validate_float(v, loc)
    [] T.k = "dict" -> validate_dict(v, loc)
    [] T.k = "optional" -> IF v.t = "None" THEN Valid(PyNone) ELSE validate(T.of, v, loc)
    [] T.k = "list" -> validate_list(T.of, v, loc)
    [] T.k = "enum" -> validate_enum(T.cls, T.members, v, loc)
    [] T.k = "literal" -> validate_literal(T.values, v, loc)
    [] T.k = "model" -> validate_model(T.cls, T.fields, v, loc)

\* cls.model_validate(obj)
model_validate(T, obj) == validate(T, obj, << >>)

(***************************************************************************)
(* Client events.                                                          *)
(***************************************************************************)
MediaChunk ==
  TModel("MediaChunk", <<Required(Name.mimeType, TStr), Required(Name.data, TStr)>>)

FileData ==
  TModel("FileData", <<Required(Name.mimeType, TStr), Required(Name.fileUri, TStr)>>)

ContentPart ==
  TModel("ContentPart",
         <<OptionalField(Name.text, TStr),
           OptionalField(Name.inlineData, MediaChunk),
           OptionalField(Name.fileData, FileData)>>)

TurnRoles == {Name.user, Name.model}

Turn ==
  TModel("Turn",
         <<Defaulted(Name.role, TLiteral(TurnRoles), PyStr(Name.user)),
           Required(Name.parts, TList(ContentPart))>>)

RealtimeInput ==
  TModel("RealtimeInput", <<Required(Name.mediaChunks, TList(MediaChunk))>>)

AudioInputMessage ==
  TModel("AudioInputMessage", <<Required(Name.realtimeInput, RealtimeInput)>>)

(***************************************************************************)
(* Grounding metadata models.                                              *)
(***************************************************************************)
SearchEntryPoint ==
  TModel("SearchEntryPoint", <<OptionalField(Name.renderedContent, TStr)>>)

WebSource ==
  TModel("WebSource", <<OptionalField(Name.uri, TStr), OptionalField(Name.title, TStr)>>)

GroundingChunk == TModel("GroundingChunk", <<OptionalField(Name.web, WebSource)>>)

GroundingSegment ==
  TModel("GroundingSegment",
         <<OptionalField(Name.startIndex, TInt),
           OptionalField(Name.endIndex, TInt),
           OptionalField(Name.text, TStr)>>)

GroundingSupport ==
  TModel("GroundingSupport",
         <<OptionalField(Name.segment, GroundingSegment),
           OptionalField(Name.groundingChunkIndices, TList(TInt)),
           OptionalField(Name.confidenceScores, TList(TFloat))>>)

GroundingMetadata ==
  TModel("GroundingMetadata",
         <<OptionalField(Name.searchEntryPoint, SearchEntryPoint),
           OptionalField(Name.groundingChunks, TList(GroundingChunk)),
           OptionalField(Name.groundingSupports, TList(GroundingSupport)),
           OptionalField(Name.webSearchQueries, TList(TStr))>>)

(***************************************************************************)
(* Server events.                                                          *)
(***************************************************************************)
SetupComplete == TModel("SetupComplete", << >>)

InlineData ==
  TModel("InlineData", <<Required(Name.mimeType, TStr), Required(Name.data, TStr)>>)

Part ==
  TModel("Part", <<OptionalField(Name.inlineData, InlineData), OptionalField(Name.text, TStr)>>)

ModelTurn == TModel("ModelTurn", <<Required(Name.parts, TList(Part))>>)

BidiGenerateContentTranscription ==
  TModel("BidiGenerateContentTranscription", <<Required(Name.text, TStr)>>)

ServerContent ==
  TModel("ServerContent",
         <<OptionalField(Name.modelTurn, ModelTurn),
           OptionalField(Name.interrupted, TBool),
           OptionalField(Name.turnComplete, TBool),
           OptionalField(Name.inputTranscription, BidiGenerateContentTranscription),
           OptionalField(Name.outputTranscription, BidiGenerateContentTranscription),
           OptionalField(Name.groundingMetadata, GroundingMetadata)>>)

FunctionCall ==
  TModel("FunctionCall",
         <<Required(Name.id, TStr), Required(Name.name, TStr), Required(Name.args, TDict)>>)

ToolCall == TModel("ToolCall", <<Required(Name.functionCalls, TList(FunctionCall))>>)

ModalityValues ==
  {Name.MODALITY_UNSPECIFIED, Name.TEXT, Name.IMAGE, Name.AUDIO, Name.VIDEO}

Modality == TEnum("Modality", ModalityValues)

ModalityTokenCount ==
  TModel("ModalityTokenCount",
         <<Required(Name.modality, Modality), Required(Name.tokenCount, TInt)>>)

UsageMetadata ==
  TModel("UsageMetadata",
         <<OptionalField(Name.promptTokenCount, TInt),
           OptionalField(Name.cachedContentTokenCount, TInt),
           OptionalField(Name.responseTokenCount, TInt),
           OptionalField(Name.toolUsePromptTokenCount, TInt),
           OptionalField(Name.thoughtsTokenCount, TInt),
           OptionalField(Name.totalTokenCount, TInt),
           OptionalField(Name.promptTokensDetails, TList(ModalityTokenCount)),
           OptionalField(Name.cacheTokensDetails, TList(ModalityTokenCount)),
           OptionalField(Name.responseTokensDetails, TList(ModalityTokenCount)),
           OptionalField(Name.toolUsePromptTokensDetails, TList(ModalityTokenCount))>>)

ServerEvent ==
  TModel("ServerEvent",
         <<OptionalField(Name.setupComplete, SetupComplete),
           OptionalField(Name.serverContent, ServerContent),
           OptionalField(Name.toolCall, ToolCall),
           OptionalField(Name.usageMetadata, UsageMetadata)>>)

(***************************************************************************)
(* parse_server_event.                                                     *)
(***************************************************************************)
Raised(cls) == [raised |-> TRUE, exc |-> cls, v |-> PyNone]
Returned(v) == [raised |-> FALSE, exc |-> "none", v |-> v]

\* Lines 287-294 on the value json.loads returned: the grounding-metadata
\* probe, then model_validate.
probe_and_validate(evt_dict) ==
  LET has_content == py_contains(evt_dict, Name.serverContent)
      server_content == py_getitem(evt_dict, Name.serverContent)
      has_grounding == py_contains(server_content.v, Name.groundingMetadata)
  IN  IF has_content.raises THEN Raised("TypeError")
      ELSE IF has_content.v /\ server_content.raises THEN Raised("TypeError")
      ELSE IF has_content.v /\ has_grounding.raises THEN Raised("TypeError")
      ELSE IF ~model_validate(ServerEvent, evt_dict).ok THEN Raised("ValidationError")
      ELSE Returned(model_validate(ServerEvent, evt_dict).v)

loaded(evt_dict) ==
  IF ~evt_dict.ok THEN Raised("JSONDecodeError") ELSE probe_and_validate(evt_dict.v)

\* The try block: json.loads, the probe, model_validate.
try_block(s) == loaded(json_loads(s))

\* `except ValueError`: a TypeError is not caught.
handler_catches_value_error(cls) == cls \in {"JSONDecodeError", "ValidationError"}

\* `except Exception`: json.JSONDecodeError and pydantic's ValidationError
\* derive from ValueError, ValueError and TypeError from Exception.
handler_catches(cls) == cls \in {"JSONDecodeError", "ValidationError", "TypeError"}

RawExcerptLimit == 200
Ellipsis == <<".", ".", ".">>

\* The comparison written >= : a text of exactly 200 characters is cut.
truncated_message_from_limit(s) ==
  IF Len(s) >= RawExcerptLimit THEN SubSeq(s, 1, RawExcerptLimit) \o Ellipsis ELSE s

\* message_str[:200] + "..." if len(message_str) > 200 else message_str
truncated_message(s) ==
  IF Len(s) > RawExcerptLimit THEN SubSeq(s, 1, RawExcerptLimit) \o Ellipsis ELSE s

\* logger.error(f"Error parsing server event: {e}")
ErrorRecord(cls) ==
  [level |-> "ERROR", label |-> "Error parsing server event", e |-> cls, text |-> << >>]
\* logger.error(f"Raw message (truncated): {truncated_message}")
RawRecord(text) ==
  [level |-> "ERROR", label |-> "Raw message (truncated)", e |-> "none", text |-> text]

Completed == [message |-> message_str, result |-> result']

\* The caller hands one wire message to parse_server_event.
Enter(m) ==
  /\ pc \in {"idle", "done"}
  /\ message_str' = m
  /\ pc' = "try"
  /\ exc' = "none"
  /\ result' = PyNone
  /\ log_start' = Len(log)
  /\ UNCHANGED <<log, history, audio_vars, turn_vars>>

\* One call on one message.
Call(m) == history = << >> /\ pc = "idle" /\ Enter(m)

\* The connection feeds the next message of the stream.
Receive(m, limit) == Len(history) < limit /\ Enter(m)

\* How the try block is left: `return evt`, or into the handler when the
\* exception is one it catches.
LeaveTry(r) ==
  IF ~r.raised
  THEN /\ result' = r.v
       /\ pc' = "done"
       /\ history' = Append(history, Completed)
       /\ exc' = exc
  ELSE /\ exc' = r.exc
       /\ pc' = IF handler_catches(r.exc) THEN "except" ELSE "raised"
       /\ UNCHANGED <<result, history>>

\* Lines 282-295.
TryBlock ==
  /\ pc = "try"
  /\ LeaveTry(try_block(message_str))
  /\ UNCHANGED <<message_str, log, log_start, audio_vars, turn_vars>>

\* Line 296.
LogError ==
  /\ pc = "except"
  /\ log' = Append(log, ErrorRecord(exc))
  /\ pc' = "except_raw"
  /\ UNCHANGED <<message_str, exc, result, log_start, history, audio_vars, turn_vars>>

\* The handler without its second logger.error call.
LogRaw_missing ==
  /\ pc = "except_raw"
  /\ pc' = "except_return"
  /\ UNCHANGED <<message_str, exc, result, log, log_start, history, audio_vars, turn_vars>>

\* Lines 298-299.
LogRaw ==
  /\ pc = "except_raw"
  /\ log' = Append(log, RawRecord(truncated_message(message_str)))
  /\ pc' = "except_return"
  /\ UNCHANGED <<message_str, exc, result, log_start, history, audio_vars, turn_vars>>

\* Line 300.
ReturnNone ==
  /\ pc = "except_return"
  /\ result' = PyNone
  /\ pc' = "done"
  /\ history' = Append(history, Completed)
  /\ UNCHANGED <<message_str, exc, log, log_start, audio_vars, turn_vars>>

(***************************************************************************)
(* Wire messages.                                                          *)
(***************************************************************************)
MaxPad == 2

Fill(c, n) == [i \in 1..n |-> c]

RECURSIVE JoinMembers(_)
JoinMembers(ms) ==
  IF ms = << >> THEN << >>
  ELSE IF Len(ms) = 1 THEN ms[1]
  ELSE ms[1] \o <<",", " ">> \o JoinMembers(Tail(ms))

Object(ms) == <<"{">> \o JoinMembers(ms) \o <<"}">>

\* What the service sends under each top-level field (the empty text: the
\* field is not sent).
SetupCompleteWire == {<< >>, 
  (* "setupComplete": {} *)
  <<"\"", "s", "e", "t", "u", "p", "C", "o", "m", "p", "l", "e", "t", "e",
  "\"", ":", " ", "{", "}">>}
ServerContentWire ==
  {<< >>,
   (* "serverContent": {"turnComplete": true} *)
   <<"\"", "s", "e", "r", "v", "e", "r", "C", "o", "n", "t", "e", "n", "t",
   "\"", ":", " ", "{", "\"", "t", "u", "r", "n", "C", "o", "m", "p", "l",
   "e", "t", "e", "\"", ":", " ", "t", "r", "u", "e", "}">>,
   (* "serverContent": {"interrupted": true, "turnComplete": false} *)
   <<"\"", "s", "e", "r", "v", "e", "r", "C", "o", "n", "t", "e", "n", "t",
   "\"", ":", " ", "{", "\"", "i", "n", "t", "e", "r", "r", "u", "p", "t",
   "e", "d", "\"", ":", " ", "t", "r", "u", "e", ",", " ", "\"", "t", "u",
   "r", "n", "C", "o", "m", "p", "l", "e", "t", "e", "\"", ":", " ", "f", "a",
   "l", "s", "e", "}">>,
   (* "serverContent": {"modelTurn": {"parts": [{"text": "hi"}, {"inlineData": {"mimeType": "audio/pcm", "data": "AAE="}}]}} *)
   <<"\"", "s", "e", "r", "v", "e", "r", "C", "o", "n", "t", "e", "n", "t",
   "\"", ":", " ", "{", "\"", "m", "o", "d", "e", "l", "T", "u", "r", "n",
   "\"", ":", " ", "{", "\"", "p", "a", "r", "t", "s", "\"", ":", " ", "[",
   "{", "\"", "t", "e", "x", "t", "\"", ":", " ", "\"", "h", "i", "\"", "}",
   ",", " ", "{", "\"", "i", "n", "l", "i", "n", "e", "D", "a", "t", "a",
   "\"", ":", " ", "{", "\"", "m", "i", "m", "e", "T", "y", "p", "e", "\"",
   ":", " ", "\"", "a", "u", "d", "i", "o", "/", "p", "c", "m", "\"", ",",
   " ", "\"", "d", "a", "t", "a", "\"", ":", " ", "\"", "A", "A", "E", "=",
   "\"", "}", "}", "]", "}", "}">>,
   (* "serverContent": {"inputTranscription": {"text": "hello"}, "outputTranscription": {"text": ""}} *)
   <<"\"", "s", "e", "r", "v", "e", "r", "C", "o", "n", "t", "e", "n", "t",
   "\"", ":", " ", "{", "\"", "i", "n", "p", "u", "t", "T", "r", "a", "n",
   "s", "c", "r", "i", "p", "t", "i", "o", "n", "\"", ":", " ", "{", "\"",
   "t", "e", "x", "t", "\"", ":", " ", "\"", "h", "e", "l", "l", "o", "\"",
   "}", ",", " ", "\"", "o", "u", "t", "p", "u", "t", "T", "r", "a", "n", "s",
   "c", "r", "i", "p", "t", "i", "o", "n", "\"", ":", " ", "{", "\"", "t",
   "e", "x", "t", "\"", ":", " ", "\"", "\"", "}", "}">>,
   (* "serverContent": {"groundingMetadata": {"webSearchQueries": ["q"], "groundingChunks": [{"web": {"uri": "u"}}], "groundingSupports": [{"segment": {"startIndex": 0, "endIndex": 2}, "groundingChunkIndices": [0]}]}} *)
   <<"\"", "s", "e", "r", "v", "e", "r", "C", "o", "n", "t", "e", "n", "t",
   "\"", ":", " ", "{", "\"", "g", "r", "o", "u", "n", "d", "i", "n", "g",
   "M", "e", "t", "a", "d", "a", "t", "a", "\"", ":", " ", "{", "\"", "w",
   "e", "b", "S", "e", "a", "r", "c", "h", "Q", "u", "e", "r", "i", "e", "s",
   "\"", ":", " ", "[", "\"", "q", "\"", "]", ",", " ", "\"", "g", "r", "o",
   "u", "n", "d", "i", "n", "g", "C", "h", "u", "n", "k", "s", "\"", ":", " ",
   "[", "{", "\"", "w", "e", "b", "\"", ":", " ", "{", "\"", "u", "r", "i",
   "\"", ":", " ", "\"", "u", "\"", "}", "}", "]", ",", " ", "\"", "g", "r",
   "o", "u", "n", "d", "i", "n", "g", "S", "u", "p", "p", "o", "r", "t", "s",
   "\"", ":", " ", "[", "{", "\"", "s", "e", "g", "m", "e", "n", "t", "\"",
   ":", " ", "{", "\"", "s", "t", "a", "r", "t", "I", "n", "d", "e", "x",
   "\"", ":", " ", "0", ",", " ", "\"", "e", "n", "d", "I", "n", "d", "e",
   "x", "\"", ":", " ", "2", "}", ",", " ", "\"", "g", "r", "o", "u", "n",
   "d", "i", "n", "g", "C", "h", "u", "n", "k", "I", "n", "d", "i", "c", "e",
   "s", "\"", ":", " ", "[", "0", "]", "}", "]", "}", "}">>,
   (* "serverContent": {} *)
   <<"\"", "s", "e", "r", "v", "e", "r", "C", "o", "n", "t", "e", "n", "t",
   "\"", ":", " ", "{", "}">>}
ToolCallWire ==
  {<< >>,
   (* "toolCall": {"functionCalls": [{"id": "1", "name": "foo", "args": {}}]} *)
   <<"\"", "t", "o", "o", "l", "C", "a", "l", "l", "\"", ":", " ", "{", "\"",
   "f", "u", "n", "c", "t", "i", "o", "n", "C", "a", "l", "l", "s", "\"", ":",
   " ", "[", "{", "\"", "i", "d", "\"", ":", " ", "\"", "1", "\"", ",", " ",
   "\"", "n", "a", "m", "e", "\"", ":", " ", "\"", "f", "o", "o", "\"", ",",
   " ", "\"", "a", "r", "g", "s", "\"", ":", " ", "{", "}", "}", "]", "}">>,
   (* "toolCall": {"functionCalls": [{"id": "1", "name": "foo", "args": {"k": [1, null]}}, {"id": "2", "name": "bar", "args": {}}]} *)
   <<"\"", "t", "o", "o", "l", "C", "a", "l", "l", "\"", ":", " ", "{", "\"",
   "f", "u", "n", "c", "t", "i", "o", "n", "C", "a", "l", "l", "s", "\"", ":",
   " ", "[", "{", "\"", "i", "d", "\"", ":", " ", "\"", "1", "\"", ",", " ",
   "\"", "n", "a", "m", "e", "\"", ":", " ", "\"", "f", "o", "o", "\"", ",",
   " ", "\"", "a", "r", "g", "s", "\"", ":", " ", "{", "\"", "k", "\"", ":",
   " ", "[", "1", ",", " ", "n", "u", "l", "l", "]", "}", "}", ",", " ", "{",
   "\"", "i", "d", "\"", ":", " ", "\"", "2", "\"", ",", " ", "\"", "n", "a",
   "m", "e", "\"", ":", " ", "\"", "b", "a", "r", "\"", ",", " ", "\"", "a",
   "r", "g", "s", "\"", ":", " ", "{", "}", "}", "]", "}">>}
UsageMetadataWire ==
  {<< >>,
   (* "usageMetadata": {"totalTokenCount": 12} *)
   <<"\"", "u", "s", "a", "g", "e", "M", "e", "t", "a", "d", "a", "t", "a",
   "\"", ":", " ", "{", "\"", "t", "o", "t", "a", "l", "T", "o", "k", "e",
   "n", "C", "o", "u", "n", "t", "\"", ":", " ", "1", "2", "}">>,
   (* "usageMetadata": {"promptTokenCount": 0, "promptTokensDetails": [{"modality": "TEXT", "tokenCount": 3}, {"modality": "MODALITY_UNSPECIFIED", "tokenCount": 0}], "responseTokensDetails": [{"modality": "AUDIO", "tokenCount": 9}]} *)
   <<"\"", "u", "s", "a", "g", "e", "M", "e", "t", "a", "d", "a", "t", "a",
   "\"", ":", " ", "{", "\"", "p", "r", "o", "m", "p", "t", "T", "o", "k",
   "e", "n", "C", "o", "u", "n", "t", "\"", ":", " ", "0", ",", " ", "\"",
   "p", "r", "o", "m", "p", "t", "T", "o", "k", "e", "n", "s", "D", "e", "t",
   "a", "i", "l", "s", "\"", ":", " ", "[", "{", "\"", "m", "o", "d", "a",
   "l", "i", "t", "y", "\"", ":", " ", "\"", "T", "E", "X", "T", "\"", ",",
   " ", "\"", "t", "o", "k", "e", "n", "C", "o", "u", "n", "t", "\"", ":",
   " ", "3", "}", ",", " ", "{", "\"", "m", "o", "d", "a", "l", "i", "t", "y",
   "\"", ":", " ", "\"", "M", "O", "D", "A", "L", "I", "T", "Y", "_", "U",
   "N", "S", "P", "E", "C", "I", "F", "I", "E", "D", "\"", ",", " ", "\"",
   "t", "o", "k", "e", "n", "C", "o", "u", "n", "t", "\"", ":", " ", "0", "}",
   "]", ",", " ", "\"", "r", "e", "s", "p", "o", "n", "s", "e", "T", "o", "k",
   "e", "n", "s", "D", "e", "t", "a", "i", "l", "s", "\"", ":", " ", "[", "{",
   "\"", "m", "o", "d", "a", "l", "i", "t", "y", "\"", ":", " ", "\"", "A",
   "U", "D", "I", "O", "\"", ",", " ", "\"", "t", "o", "k", "e", "n", "C",
   "o", "u", "n", "t", "\"", ":", " ", "9", "}", "]", "}">>}

\* Valid ServerEvent payloads: every subset of the four top-level fields.
ValidPayloads ==
  {Object(SelectSeq(<<a, b, c, d>>, LAMBDA m : m # << >>)) :
     a \in SetupCompleteWire, b \in ServerContentWire,
     c \in ToolCallWire, d \in UsageMetadataWire}

\* Valid payloads that also carry fields the schema does not model.
UnknownFieldPayloads ==
  {
    (* {"serverContent": {"turnComplete": true, "generationComplete": true}, "goAway": {"timeLeft": "5s"}} *)
    <<"{", "\"", "s", "e", "r", "v", "e", "r", "C", "o", "n", "t", "e", "n",
    "t", "\"", ":", " ", "{", "\"", "t", "u", "r", "n", "C", "o", "m", "p",
    "l", "e", "t", "e", "\"", ":", " ", "t", "r", "u", "e", ",", " ", "\"",
    "g", "e", "n", "e", "r", "a", "t", "i", "o", "n", "C", "o", "m", "p", "l",
    "e", "t", "e", "\"", ":", " ", "t", "r", "u", "e", "}", ",", " ", "\"",
    "g", "o", "A", "w", "a", "y", "\"", ":", " ", "{", "\"", "t", "i", "m",
    "e", "L", "e", "f", "t", "\"", ":", " ", "\"", "5", "s", "\"", "}", "}">>,
   (* {"toolCall": {"functionCalls": [{"id": "1", "name": "foo", "args": {}, "willContinue": false}]}} *)
   <<"{", "\"", "t", "o", "o", "l", "C", "a", "l", "l", "\"", ":", " ", "{",
   "\"", "f", "u", "n", "c", "t", "i", "o", "n", "C", "a", "l", "l", "s",
   "\"", ":", " ", "[", "{", "\"", "i", "d", "\"", ":", " ", "\"", "1", "\"",
   ",", " ", "\"", "n", "a", "m", "e", "\"", ":", " ", "\"", "f", "o", "o",
   "\"", ",", " ", "\"", "a", "r", "g", "s", "\"", ":", " ", "{", "}", ",",
   " ", "\"", "w", "i", "l", "l", "C", "o", "n", "t", "i", "n", "u", "e",
   "\"", ":", " ", "f", "a", "l", "s", "e", "}", "]", "}", "}">>,
   (* {"setupComplete": {"sessionId": "s"}} *)
   <<"{", "\"", "s", "e", "t", "u", "p", "C", "o", "m", "p", "l", "e", "t",
   "e", "\"", ":", " ", "{", "\"", "s", "e", "s", "s", "i", "o", "n", "I",
   "d", "\"", ":", " ", "\"", "s", "\"", "}", "}">>,
   (* {"sessionResumptionUpdate": {"resumable": true}} *)
   <<"{", "\"", "s", "e", "s", "s", "i", "o", "n", "R", "e", "s", "u", "m",
   "p", "t", "i", "o", "n", "U", "p", "d", "a", "t", "e", "\"", ":", " ", "{",
   "\"", "r", "e", "s", "u", "m", "a", "b", "l", "e", "\"", ":", " ", "t",
   "r", "u", "e", "}", "}">>,
   (* {"usageMetadata": {"totalTokenCount": 12, "trafficType": "ON_DEMAND"}} *)
   <<"{", "\"", "u", "s", "a", "g", "e", "M", "e", "t", "a", "d", "a", "t",
   "a", "\"", ":", " ", "{", "\"", "t", "o", "t", "a", "l", "T", "o", "k",
   "e", "n", "C", "o", "u", "n", "t", "\"", ":", " ", "1", "2", ",", " ",
   "\"", "t", "r", "a", "f", "f", "i", "c", "T", "y", "p", "e", "\"", ":",
   " ", "\"", "O", "N", "_", "D", "E", "M", "A", "N", "D", "\"", "}", "}">>,
   (* {"serverContent": {"modelTurn": {"role": "model", "parts": [{"text": "hi", "thought": true}]}}} *)
   <<"{", "\"", "s", "e", "r", "v", "e", "r", "C", "o", "n", "t", "e", "n",
   "t", "\"", ":", " ", "{", "\"", "m", "o", "d", "e", "l", "T", "u", "r",
   "n", "\"", ":", " ", "{", "\"", "r", "o", "l", "e", "\"", ":", " ", "\"",
   "m", "o", "d", "e", "l", "\"", ",", " ", "\"", "p", "a", "r", "t", "s",
   "\"", ":", " ", "[", "{", "\"", "t", "e", "x", "t", "\"", ":", " ", "\"",
   "h", "i", "\"", ",", " ", "\"", "t", "h", "o", "u", "g", "h", "t", "\"",
   ":", " ", "t", "r", "u", "e", "}", "]", "}", "}", "}">>}

\* Well-formed objects that break a required-field or closed-enum rule.
SchemaViolations ==
  {
    (* {"toolCall": {"functionCalls": [{"name": "foo", "args": {}}]}} *)
    <<"{", "\"", "t", "o", "o", "l", "C", "a", "l", "l", "\"", ":", " ", "{",
    "\"", "f", "u", "n", "c", "t", "i", "o", "n", "C", "a", "l", "l", "s",
    "\"", ":", " ", "[", "{", "\"", "n", "a", "m", "e", "\"", ":", " ", "\"",
    "f", "o", "o", "\"", ",", " ", "\"", "a", "r", "g", "s", "\"", ":", " ",
    "{", "}", "}", "]", "}", "}">>,
   (* {"toolCall": {"functionCalls": [{"id": "1", "args": {}}]}} *)
   <<"{", "\"", "t", "o", "o", "l", "C", "a", "l", "l", "\"", ":", " ", "{",
   "\"", "f", "u", "n", "c", "t", "i", "o", "n", "C", "a", "l", "l", "s",
   "\"", ":", " ", "[", "{", "\"", "i", "d", "\"", ":", " ", "\"", "1", "\"",
   ",", " ", "\"", "a", "r", "g", "s", "\"", ":", " ", "{", "}", "}", "]",
   "}", "}">>,
   (* {"toolCall": {"functionCalls": [{"id": "1", "name": "foo"}]}} *)
   <<"{", "\"", "t", "o", "o", "l", "C", "a", "l", "l", "\"", ":", " ", "{",
   "\"", "f", "u", "n", "c", "t", "i", "o", "n", "C", "a", "l", "l", "s",
   "\"", ":", " ", "[", "{", "\"", "i", "d", "\"", ":", " ", "\"", "1", "\"",
   ",", " ", "\"", "n", "a", "m", "e", "\"", ":", " ", "\"", "f", "o", "o",
   "\"", "}", "]", "}", "}">>,
   (* {"toolCall": {}} *)
   <<"{", "\"", "t", "o", "o", "l", "C", "a", "l", "l", "\"", ":", " ", "{",
   "}", "}">>,
   (* {"serverContent": {"modelTurn": {}}} *)
   <<"{", "\"", "s", "e", "r", "v", "e", "r", "C", "o", "n", "t", "e", "n",
   "t", "\"", ":", " ", "{", "\"", "m", "o", "d", "e", "l", "T", "u", "r",
   "n", "\"", ":", " ", "{", "}", "}", "}">>,
   (* {"serverContent": {"modelTurn": {"parts": [{"inlineData": {"data": "AAE="}}]}}} *)
   <<"{", "\"", "s", "e", "r", "v", "e", "r", "C", "o", "n", "t", "e", "n",
   "t", "\"", ":", " ", "{", "\"", "m", "o", "d", "e", "l", "T", "u", "r",
   "n", "\"", ":", " ", "{", "\"", "p", "a", "r", "t", "s", "\"", ":", " ",
   "[", "{", "\"", "i", "n", "l", "i", "n", "e", "D", "a", "t", "a", "\"",
   ":", " ", "{", "\"", "d", "a", "t", "a", "\"", ":", " ", "\"", "A", "A",
   "E", "=", "\"", "}", "}", "]", "}", "}", "}">>,
   (* {"serverContent": {"modelTurn": {"parts": [{"text": "hi"}, {"inlineData": {"mimeType": "audio/pcm"}}]}}} *)
   <<"{", "\"", "s", "e", "r", "v", "e", "r", "C", "o", "n", "t", "e", "n",
   "t", "\"", ":", " ", "{", "\"", "m", "o", "d", "e", "l", "T", "u", "r",
   "n", "\"", ":", " ", "{", "\"", "p", "a", "r", "t", "s", "\"", ":", " ",
   "[", "{", "\"", "t", "e", "x", "t", "\"", ":", " ", "\"", "h", "i", "\"",
   "}", ",", " ", "{", "\"", "i", "n", "l", "i", "n", "e", "D", "a", "t", "a",
   "\"", ":", " ", "{", "\"", "m", "i", "m", "e", "T", "y", "p", "e", "\"",
   ":", " ", "\"", "a", "u", "d", "i", "o", "/", "p", "c", "m", "\"", "}",
   "}", "]", "}", "}", "}">>,
   (* {"serverContent": {"inputTranscription": {}}} *)
   <<"{", "\"", "s", "e", "r", "v", "e", "r", "C", "o", "n", "t", "e", "n",
   "t", "\"", ":", " ", "{", "\"", "i", "n", "p", "u", "t", "T", "r", "a",
   "n", "s", "c", "r", "i", "p", "t", "i", "o", "n", "\"", ":", " ", "{", "}",
   "}", "}">>,
   (* {"serverContent": {"turnComplete": true, "outputTranscription": {"finished": true}}} *)
   <<"{", "\"", "s", "e", "r", "v", "e", "r", "C", "o", "n", "t", "e", "n",
   "t", "\"", ":", " ", "{", "\"", "t", "u", "r", "n", "C", "o", "m", "p",
   "l", "e", "t", "e", "\"", ":", " ", "t", "r", "u", "e", ",", " ", "\"",
   "o", "u", "t", "p", "u", "t", "T", "r", "a", "n", "s", "c", "r", "i", "p",
   "t", "i", "o", "n", "\"", ":", " ", "{", "\"", "f", "i", "n", "i", "s",
   "h", "e", "d", "\"", ":", " ", "t", "r", "u", "e", "}", "}", "}">>,
   (* {"usageMetadata": {"promptTokensDetails": [{"modality": "text", "tokenCount": 3}]}} *)
   <<"{", "\"", "u", "s", "a", "g", "e", "M", "e", "t", "a", "d", "a", "t",
   "a", "\"", ":", " ", "{", "\"", "p", "r", "o", "m", "p", "t", "T", "o",
   "k", "e", "n", "s", "D", "e", "t", "a", "i", "l", "s", "\"", ":", " ", "[",
   "{", "\"", "m", "o", "d", "a", "l", "i", "t", "y", "\"", ":", " ", "\"",
   "t", "e", "x", "t", "\"", ",", " ", "\"", "t", "o", "k", "e", "n", "C",
   "o", "u", "n", "t", "\"", ":", " ", "3", "}", "]", "}", "}">>,
   (* {"usageMetadata": {"responseTokensDetails": [{"modality": "TEXT", "tokenCount": 3}, {"modality": "DOCUMENT", "tokenCount": 1}]}} *)
   <<"{", "\"", "u", "s", "a", "g", "e", "M", "e", "t", "a", "d", "a", "t",
   "a", "\"", ":", " ", "{", "\"", "r", "e", "s", "p", "o", "n", "s", "e",
   "T", "o", "k", "e", "n", "s", "D", "e", "t", "a", "i", "l", "s", "\"", ":",
   " ", "[", "{", "\"", "m", "o", "d", "a", "l", "i", "t", "y", "\"", ":",
   " ", "\"", "T", "E", "X", "T", "\"", ",", " ", "\"", "t", "o", "k", "e",
   "n", "C", "o", "u", "n", "t", "\"", ":", " ", "3", "}", ",", " ", "{",
   "\"", "m", "o", "d", "a", "l", "i", "t", "y", "\"", ":", " ", "\"", "D",
   "O", "C", "U", "M", "E", "N", "T", "\"", ",", " ", "\"", "t", "o", "k",
   "e", "n", "C", "o", "u", "n", "t", "\"", ":", " ", "1", "}", "]", "}",
   "}">>,
   (* {"usageMetadata": {"cacheTokensDetails": [{"modality": 1, "tokenCount": 3}]}} *)
   <<"{", "\"", "u", "s", "a", "g", "e", "M", "e", "t", "a", "d", "a", "t",
   "a", "\"", ":", " ", "{", "\"", "c", "a", "c", "h", "e", "T", "o", "k",
   "e", "n", "s", "D", "e", "t", "a", "i", "l", "s", "\"", ":", " ", "[", "{",
   "\"", "m", "o", "d", "a", "l", "i", "t", "y", "\"", ":", " ", "1", ",",
   " ", "\"", "t", "o", "k", "e", "n", "C", "o", "u", "n", "t", "\"", ":",
   " ", "3", "}", "]", "}", "}">>,
   (* {"usageMetadata": {"toolUsePromptTokensDetails": [{"modality": "VIDEO"}]}} *)
   <<"{", "\"", "u", "s", "a", "g", "e", "M", "e", "t", "a", "d", "a", "t",
   "a", "\"", ":", " ", "{", "\"", "t", "o", "o", "l", "U", "s", "e", "P",
   "r", "o", "m", "p", "t", "T", "o", "k", "e", "n", "s", "D", "e", "t", "a",
   "i", "l", "s", "\"", ":", " ", "[", "{", "\"", "m", "o", "d", "a", "l",
   "i", "t", "y", "\"", ":", " ", "\"", "V", "I", "D", "E", "O", "\"", "}",
   "]", "}", "}">>,
   (* {"setupComplete": {}, "usageMetadata": {"promptTokensDetails": [{"modality": "", "tokenCount": 3}]}} *)
   <<"{", "\"", "s", "e", "t", "u", "p", "C", "o", "m", "p", "l", "e", "t",
   "e", "\"", ":", " ", "{", "}", ",", " ", "\"", "u", "s", "a", "g", "e",
   "M", "e", "t", "a", "d", "a", "t", "a", "\"", ":", " ", "{", "\"", "p",
   "r", "o", "m", "p", "t", "T", "o", "k", "e", "n", "s", "D", "e", "t", "a",
   "i", "l", "s", "\"", ":", " ", "[", "{", "\"", "m", "o", "d", "a", "l",
   "i", "t", "y", "\"", ":", " ", "\"", "\"", ",", " ", "\"", "t", "o", "k",
   "e", "n", "C", "o", "u", "n", "t", "\"", ":", " ", "3", "}", "]", "}",
   "}">>}

\* Other well-formed JSON: a top level that is no object, odd values under
\* serverContent, null fields, values lax mode coerces, wrong types.
OtherJson ==
  {<<"[", "]">>, 
    (* ["serverContent"] *)
    <<"[", "\"", "s", "e", "r", "v", "e", "r", "C", "o", "n", "t", "e", "n",
    "t", "\"", "]">>, 
      (* "serverContent" *)
      <<"\"", "s", "e", "r", "v", "e", "r", "C", "o", "n", "t", "e", "n", "t",
      "\"">>, <<"\"", "x", "\"">>, <<"5">>, <<"-", "1", ".", "5">>,
   <<"n", "u", "l", "l">>, <<"t", "r", "u", "e">>, <<" ", "{", "}", " ">>,
   (* {"serverContent": null} *)
   <<"{", "\"", "s", "e", "r", "v", "e", "r", "C", "o", "n", "t", "e", "n",
   "t", "\"", ":", " ", "n", "u", "l", "l", "}">>,
   (* {"serverContent": 5} *)
   <<"{", "\"", "s", "e", "r", "v", "e", "r", "C", "o", "n", "t", "e", "n",
   "t", "\"", ":", " ", "5", "}">>,
   (* {"serverContent": "x"} *)
   <<"{", "\"", "s", "e", "r", "v", "e", "r", "C", "o", "n", "t", "e", "n",
   "t", "\"", ":", " ", "\"", "x", "\"", "}">>,
   (* {"serverContent": "groundingMetadata"} *)
   <<"{", "\"", "s", "e", "r", "v", "e", "r", "C", "o", "n", "t", "e", "n",
   "t", "\"", ":", " ", "\"", "g", "r", "o", "u", "n", "d", "i", "n", "g",
   "M", "e", "t", "a", "d", "a", "t", "a", "\"", "}">>,
   (* {"serverContent": []} *)
   <<"{", "\"", "s", "e", "r", "v", "e", "r", "C", "o", "n", "t", "e", "n",
   "t", "\"", ":", " ", "[", "]", "}">>,
   (* {"serverContent": ["groundingMetadata"]} *)
   <<"{", "\"", "s", "e", "r", "v", "e", "r", "C", "o", "n", "t", "e", "n",
   "t", "\"", ":", " ", "[", "\"", "g", "r", "o", "u", "n", "d", "i", "n",
   "g", "M", "e", "t", "a", "d", "a", "t", "a", "\"", "]", "}">>,
   (* {"serverContent": false} *)
   <<"{", "\"", "s", "e", "r", "v", "e", "r", "C", "o", "n", "t", "e", "n",
   "t", "\"", ":", " ", "f", "a", "l", "s", "e", "}">>,
   (* {"serverContent": null, "setupComplete": {}} *)
   <<"{", "\"", "s", "e", "r", "v", "e", "r", "C", "o", "n", "t", "e", "n",
   "t", "\"", ":", " ", "n", "u", "l", "l", ",", " ", "\"", "s", "e", "t",
   "u", "p", "C", "o", "m", "p", "l", "e", "t", "e", "\"", ":", " ", "{", "}",
   "}">>,
   (* {"setupComplete": null} *)
   <<"{", "\"", "s", "e", "t", "u", "p", "C", "o", "m", "p", "l", "e", "t",
   "e", "\"", ":", " ", "n", "u", "l", "l", "}">>,
   (* {"toolCall": null, "usageMetadata": null} *)
   <<"{", "\"", "t", "o", "o", "l", "C", "a", "l", "l", "\"", ":", " ", "n",
   "u", "l", "l", ",", " ", "\"", "u", "s", "a", "g", "e", "M", "e", "t", "a",
   "d", "a", "t", "a", "\"", ":", " ", "n", "u", "l", "l", "}">>,
   (* {"serverContent": {"groundingMetadata": null}} *)
   <<"{", "\"", "s", "e", "r", "v", "e", "r", "C", "o", "n", "t", "e", "n",
   "t", "\"", ":", " ", "{", "\"", "g", "r", "o", "u", "n", "d", "i", "n",
   "g", "M", "e", "t", "a", "d", "a", "t", "a", "\"", ":", " ", "n", "u", "l",
   "l", "}", "}">>,
   (* {"serverContent": {"groundingMetadata": 5}} *)
   <<"{", "\"", "s", "e", "r", "v", "e", "r", "C", "o", "n", "t", "e", "n",
   "t", "\"", ":", " ", "{", "\"", "g", "r", "o", "u", "n", "d", "i", "n",
   "g", "M", "e", "t", "a", "d", "a", "t", "a", "\"", ":", " ", "5", "}",
   "}">>,
   (* {"serverContent": {"turnComplete": "yes"}} *)
   <<"{", "\"", "s", "e", "r", "v", "e", "r", "C", "o", "n", "t", "e", "n",
   "t", "\"", ":", " ", "{", "\"", "t", "u", "r", "n", "C", "o", "m", "p",
   "l", "e", "t", "e", "\"", ":", " ", "\"", "y", "e", "s", "\"", "}", "}">>,
   (* {"serverContent": {"turnComplete": 2}} *)
   <<"{", "\"", "s", "e", "r", "v", "e", "r", "C", "o", "n", "t", "e", "n",
   "t", "\"", ":", " ", "{", "\"", "t", "u", "r", "n", "C", "o", "m", "p",
   "l", "e", "t", "e", "\"", ":", " ", "2", "}", "}">>,
   (* {"usageMetadata": {"totalTokenCount": "12"}} *)
   <<"{", "\"", "u", "s", "a", "g", "e", "M", "e", "t", "a", "d", "a", "t",
   "a", "\"", ":", " ", "{", "\"", "t", "o", "t", "a", "l", "T", "o", "k",
   "e", "n", "C", "o", "u", "n", "t", "\"", ":", " ", "\"", "1", "2", "\"",
   "}", "}">>,
   (* {"usageMetadata": {"totalTokenCount": 1.5}} *)
   <<"{", "\"", "u", "s", "a", "g", "e", "M", "e", "t", "a", "d", "a", "t",
   "a", "\"", ":", " ", "{", "\"", "t", "o", "t", "a", "l", "T", "o", "k",
   "e", "n", "C", "o", "u", "n", "t", "\"", ":", " ", "1", ".", "5", "}",
   "}">>,
   (* {"usageMetadata": {"totalTokenCount": 2.0}} *)
   <<"{", "\"", "u", "s", "a", "g", "e", "M", "e", "t", "a", "d", "a", "t",
   "a", "\"", ":", " ", "{", "\"", "t", "o", "t", "a", "l", "T", "o", "k",
   "e", "n", "C", "o", "u", "n", "t", "\"", ":", " ", "2", ".", "0", "}",
   "}">>,
   (* {"setupComplete": []} *)
   <<"{", "\"", "s", "e", "t", "u", "p", "C", "o", "m", "p", "l", "e", "t",
   "e", "\"", ":", " ", "[", "]", "}">>,
   (* {"toolCall": {"functionCalls": {}}} *)
   <<"{", "\"", "t", "o", "o", "l", "C", "a", "l", "l", "\"", ":", " ", "{",
   "\"", "f", "u", "n", "c", "t", "i", "o", "n", "C", "a", "l", "l", "s",
   "\"", ":", " ", "{", "}", "}", "}">>,
   (* {"toolCall": {"functionCalls": [{"id": 1, "name": "foo", "args": {}}]}} *)
   <<"{", "\"", "t", "o", "o", "l", "C", "a", "l", "l", "\"", ":", " ", "{",
   "\"", "f", "u", "n", "c", "t", "i", "o", "n", "C", "a", "l", "l", "s",
   "\"", ":", " ", "[", "{", "\"", "i", "d", "\"", ":", " ", "1", ",", " ",
   "\"", "n", "a", "m", "e", "\"", ":", " ", "\"", "f", "o", "o", "\"", ",",
   " ", "\"", "a", "r", "g", "s", "\"", ":", " ", "{", "}", "}", "]", "}",
   "}">>,
   (* {"serverContent": {"turnComplete": true}, "serverContent": {"interrupted": true}} *)
   <<"{", "\"", "s", "e", "r", "v", "e", "r", "C", "o", "n", "t", "e", "n",
   "t", "\"", ":", " ", "{", "\"", "t", "u", "r", "n", "C", "o", "m", "p",
   "l", "e", "t", "e", "\"", ":", " ", "t", "r", "u", "e", "}", ",", " ",
   "\"", "s", "e", "r", "v", "e", "r", "C", "o", "n", "t", "e", "n", "t",
   "\"", ":", " ", "{", "\"", "i", "n", "t", "e", "r", "r", "u", "p", "t",
   "e", "d", "\"", ":", " ", "t", "r", "u", "e", "}", "}">>}

\* Text that is not JSON.
MalformedTexts ==
  {<<"{", "n", "o", "t", " ", "j", "s", "o", "n">>, << >>, <<" ">>, <<"{">>, 
    (* {"setupComplete": {} *)
    <<"{", "\"", "s", "e", "t", "u", "p", "C", "o", "m", "p", "l", "e", "t",
    "e", "\"", ":", " ", "{", "}">>, 
      (* {"setupComplete": {},} *)
      <<"{", "\"", "s", "e", "t", "u", "p", "C", "o", "m", "p", "l", "e", "t",
      "e", "\"", ":", " ", "{", "}", ",", "}">>,
   (* {"setupComplete" {}} *)
   <<"{", "\"", "s", "e", "t", "u", "p", "C", "o", "m", "p", "l", "e", "t",
   "e", "\"", " ", "{", "}", "}">>, 
     (* {"setupComplete": {}} {} *)
     <<"{", "\"", "s", "e", "t", "u", "p", "C", "o", "m", "p", "l", "e", "t",
     "e", "\"", ":", " ", "{", "}", "}", " ", "{", "}">>, 
       (* {'setupComplete': {}} *)
       <<"{", "'", "s", "e", "t", "u", "p", "C", "o", "m", "p", "l", "e", "t",
       "e", "'", ":", " ", "{", "}", "}">>,
   (* {"serverContent": {"turnComplete": True}} *)
   <<"{", "\"", "s", "e", "r", "v", "e", "r", "C", "o", "n", "t", "e", "n",
   "t", "\"", ":", " ", "{", "\"", "t", "u", "r", "n", "C", "o", "m", "p",
   "l", "e", "t", "e", "\"", ":", " ", "T", "r", "u", "e", "}", "}">>, 
     (* {"serverContent *)
     <<"{", "\"", "s", "e", "r", "v", "e", "r", "C", "o", "n", "t", "e", "n",
     "t">>, <<"[", "1", ",", " ", "2">>, <<"0", "1">>}

\* Messages around the excerpt limit: text that is not JSON, an object
\* that breaks the schema with a large payload in it, and a valid event.
LongLengths == (RawExcerptLimit - MaxPad)..(RawExcerptLimit + MaxPad)
Padded(prefix, c, suffix, n) ==
  prefix \o Fill(c, n - Len(prefix) - Len(suffix)) \o suffix
LongMessages ==
  UNION {{Padded(<<"[", "1", ",", " ", "2">>, " ", << >>, n),
          Padded(
            (* {"serverContent": {"modelTurn": {"parts": [{"inlineData": {"data": " *)
            <<"{", "\"", "s", "e", "r", "v", "e", "r", "C", "o", "n", "t",
            "e", "n", "t", "\"", ":", " ", "{", "\"", "m", "o", "d", "e", "l",
            "T", "u", "r", "n", "\"", ":", " ", "{", "\"", "p", "a", "r", "t",
            "s", "\"", ":", " ", "[", "{", "\"", "i", "n", "l", "i", "n", "e",
            "D", "a", "t", "a", "\"", ":", " ", "{", "\"", "d", "a", "t", "a",
            "\"", ":", " ", "\"">>,
                 "A", <<"\"", "}", "}", "]", "}", "}", "}">>, n),
          Padded(
            (* {"setupComplete": {}} *)
            <<"{", "\"", "s", "e", "t", "u", "p", "C", "o", "m", "p", "l",
            "e", "t", "e", "\"", ":", " ", "{", "}", "}">>, " ", << >>, n)} : n \in LongLengths}

Messages ==
  ValidPayloads \cup UnknownFieldPayloads \cup SchemaViolations
    \cup OtherJson \cup MalformedTexts \cup LongMessages

\* The messages of the stream model.
MaxStream == 3
StreamMessages ==
  {
    (* {"serverContent": {"turnComplete": true}} *)
    <<"{", "\"", "s", "e", "r", "v", "e", "r", "C", "o", "n", "t", "e", "n",
    "t", "\"", ":", " ", "{", "\"", "t", "u", "r", "n", "C", "o", "m", "p",
    "l", "e", "t", "e", "\"", ":", " ", "t", "r", "u", "e", "}", "}">>,
   (* {"serverContent": {"turnComplete": true, "generationComplete": true}, "goAway": {"timeLeft": "5s"}} *)
   <<"{", "\"", "s", "e", "r", "v", "e", "r", "C", "o", "n", "t", "e", "n",
   "t", "\"", ":", " ", "{", "\"", "t", "u", "r", "n", "C", "o", "m", "p",
   "l", "e", "t", "e", "\"", ":", " ", "t", "r", "u", "e", ",", " ", "\"",
   "g", "e", "n", "e", "r", "a", "t", "i", "o", "n", "C", "o", "m", "p", "l",
   "e", "t", "e", "\"", ":", " ", "t", "r", "u", "e", "}", ",", " ", "\"",
   "g", "o", "A", "w", "a", "y", "\"", ":", " ", "{", "\"", "t", "i", "m",
   "e", "L", "e", "f", "t", "\"", ":", " ", "\"", "5", "s", "\"", "}", "}">>,
   (* {"toolCall": {"functionCalls": [{"id": "1", "name": "foo", "args": {}}]}} *)
   <<"{", "\"", "t", "o", "o", "l", "C", "a", "l", "l", "\"", ":", " ", "{",
   "\"", "f", "u", "n", "c", "t", "i", "o", "n", "C", "a", "l", "l", "s",
   "\"", ":", " ", "[", "{", "\"", "i", "d", "\"", ":", " ", "\"", "1", "\"",
   ",", " ", "\"", "n", "a", "m", "e", "\"", ":", " ", "\"", "f", "o", "o",
   "\"", ",", " ", "\"", "a", "r", "g", "s", "\"", ":", " ", "{", "}", "}",
   "]", "}", "}">>,
   (* {"toolCall": {"functionCalls": [{"id": "1", "name": "foo", "args": {}, "willContinue": false}]}} *)
   <<"{", "\"", "t", "o", "o", "l", "C", "a", "l", "l", "\"", ":", " ", "{",
   "\"", "f", "u", "n", "c", "t", "i", "o", "n", "C", "a", "l", "l", "s",
   "\"", ":", " ", "[", "{", "\"", "i", "d", "\"", ":", " ", "\"", "1", "\"",
   ",", " ", "\"", "n", "a", "m", "e", "\"", ":", " ", "\"", "f", "o", "o",
   "\"", ",", " ", "\"", "a", "r", "g", "s", "\"", ":", " ", "{", "}", ",",
   " ", "\"", "w", "i", "l", "l", "C", "o", "n", "t", "i", "n", "u", "e",
   "\"", ":", " ", "f", "a", "l", "s", "e", "}", "]", "}", "}">>,
   <<"{", "n", "o", "t", " ", "j", "s", "o", "n">>,
   (* {"toolCall": {}} *)
   <<"{", "\"", "t", "o", "o", "l", "C", "a", "l", "l", "\"", ":", " ", "{",
   "}", "}">>,
   (* {"serverContent": null} *)
   <<"{", "\"", "s", "e", "r", "v", "e", "r", "C", "o", "n", "t", "e", "n",
   "t", "\"", ":", " ", "n", "u", "l", "l", "}">>}

(***************************************************************************)
(* AudioInputMessage.from_raw_audio.                                       *)
(***************************************************************************)
B64Chars == 
  (* ABCDEFGHIJKLMNOPQRSTUVWXYZabcdefghijklmnopqrstuvwxyz0123456789+/ *)
  <<"A", "B", "C", "D", "E", "F", "G", "H", "I", "J", "K", "L", "M", "N", "O",
  "P", "Q", "R", "S", "T", "U", "V", "W", "X", "Y", "Z", "a", "b", "c", "d",
  "e", "f", "g", "h", "i", "j", "k", "l", "m", "n", "o", "p", "q", "r", "s",
  "t", "u", "v", "w", "x", "y", "z", "0", "1", "2", "3", "4", "5", "6", "7",
  "8", "9", "+", "/">>

\* The four characters of the g-th group of three bytes of bs.
B64Group(bs, g) ==
  LET n == Len(bs)
      b1 == bs[3 * g - 2]
      b2 == IF 3 * g - 1 <= n THEN bs[3 * g - 1] ELSE 0
      b3 == IF 3 * g <= n THEN bs[3 * g] ELSE 0
      bits == b1 * 65536 + b2 * 256 + b3
  IN  <<B64Chars[(bits \div 262144) + 1],
        B64Chars[((bits \div 4096) % 64) + 1],
        IF 3 * g - 1 <= n THEN B64Chars[((bits \div 64) % 64) + 1] ELSE "=",
        IF 3 * g <= n THEN B64Chars[(bits % 64) + 1] ELSE "=">>

\* Base64 without the trailing padding.
b64encode_unpadded(bs) ==
  [i \in 1..(((4 * Len(bs)) + 2) \div 3) |->
     B64Group(bs, ((i - 1) \div 4) + 1)[((i - 1) % 4) + 1]]

\* base64.b64encode(raw_audio).decode("utf-8")
b64encode(bs) ==
  [i \in 1..(4 * ((Len(bs) + 2) \div 3)) |->
     B64Group(bs, ((i - 1) \div 4) + 1)[((i - 1) % 4) + 1]]

AudioMimePrefix == 
  (* audio/pcm;rate= *)
  <<"a", "u", "d", "i", "o", "/", "p", "c", "m", ";", "r", "a", "t", "e",
  "=">>

\* Keyword arguments of a model constructor.
Kwargs1(k, v) == PyDict(k :> v)
Kwargs2(k1, v1, k2, v2) == PyDict((k1 :> v1) @@ (k2 :> v2))

ConstructionError == [t |-> "raised", exc |-> "ValidationError"]

from_raw_audio(bytes, rate) ==
  LET data == b64encode(bytes)
      chunk == model_validate(MediaChunk,
                 Kwargs2(Name.mimeType, PyStr(AudioMimePrefix \o IntToStr(rate)),
                         Name.data, PyStr(data)))
      input == model_validate(RealtimeInput,
                 Kwargs1(Name.mediaChunks, PyList(<<chunk.v>>)))
      message == model_validate(AudioInputMessage, Kwargs1(Name.realtimeInput, input.v))
  IN  IF chunk.ok /\ input.ok /\ message.ok THEN message.v ELSE ConstructionError

FromRawAudio ==
  /\ audio_message = PyNone
  /\ audio_message' = from_raw_audio(raw_audio, sample_rate)
  /\ UNCHANGED <<raw_audio, sample_rate, parse_vars, turn_vars>>

MaxAudioLen == 3
ByteValues == {0, 77, 165, 255}
ByteStrings == UNION {[1..n -> ByteValues] : n \in 0..MaxAudioLen}
SampleRates == {16000, 24000, 8000, 0, -1}

(***************************************************************************)
(* Turn.                                                                   *)
(***************************************************************************)
\* Turn.model_validate(turn_input) / Turn(**turn_input)
ValidateTurn(limit) ==
  /\ turn_input # PyNone
  /\ Len(turn_results) < limit
  /\ turn_results' = Append(turn_results, model_validate(Turn, turn_input))
  /\ UNCHANGED <<turn_input, parse_vars, audio_vars>>

MaxValidations == 2
MaxParts == 2

ValidParts ==
  {Kwargs1(Name.text, PyStr(<<"h", "i">>)),
   Kwargs1(Name.inlineData,
           Kwargs2(Name.mimeType, PyStr(<<"i", "m", "a", "g", "e", "/", "j", "p", "e", "g">>), Name.data, PyStr(<<"A", "A", "E", "=">>))),
   Kwargs1(Name.fileData,
           Kwargs2(Name.mimeType, PyStr(<<"v", "i", "d", "e", "o", "/", "m", "p", "4">>), Name.fileUri, PyStr(<<"f", "i", "l", "e", "s", "/", "1">>)))}
InvalidParts ==
  {Kwargs1(Name.inlineData, Kwargs1(Name.mimeType, PyStr(<<"i", "m", "a", "g", "e", "/", "j", "p", "e", "g">>))),
   PyStr(<<"h", "i">>)}
PartLists(parts) == UNION {[1..n -> parts] : n \in 0..MaxParts}

\* The role given (Absent: none given).
Absent == [t |-> "absent"]
RoleInputs ==
  {Absent, PyStr(Name.user), PyStr(Name.model), PyStr(<<"s", "y", "s", "t", "e", "m">>), PyStr(<<"U", "S", "E", "R">>),
   PyStr(<<"M", "o", "d", "e", "l">>), PyStr(<< >>), PyStr(<<" ", "u", "s", "e", "r">>), PyInt(5), PyNone,
   PyList(<<PyStr(Name.user)>>)}
PartsInputs ==
  {Absent, PyNone, PyStr(<<"h", "i">>)}
    \cup {PyList(l) : l \in PartLists(ValidParts \cup InvalidParts)}

TurnData(role, parts) ==
  PyDict((IF role = Absent THEN << >> ELSE Name.role :> role)
           @@ (IF parts = Absent THEN << >> ELSE Name.parts :> parts))

(***************************************************************************)
(* Specifications.                                                         *)
(***************************************************************************)
ParseIdle ==
  /\ message_str = << >> /\ pc = "idle" /\ exc = "none" /\ result = PyNone
  /\ log = << >> /\ log_start = 0 /\ history = << >>
AudioIdle == raw_audio = << >> /\ sample_rate = 0 /\ audio_message = PyNone
TurnIdle == turn_input = PyNone /\ turn_results = << >>

Init == ParseIdle /\ AudioIdle /\ TurnIdle

\* One call of parse_server_event on any message.
Next ==
  \/ \E m \in Messages : Call(m)
  \/ TryBlock
  \/ LogError
  \/ LogRaw
  \/ ReturnNone

Spec == Init /\ [][Next]_vars

\* A stream of messages decoded in arrival order.
NextStream ==
  \/ \E m \in StreamMessages : Receive(m, MaxStream)
  \/ TryBlock
  \/ LogError
  \/ LogRaw
  \/ ReturnNone

SpecStream == Init /\ [][NextStream]_vars

\* from_raw_audio on any bytes and rate.
InitAudio ==
  /\ ParseIdle /\ TurnIdle
  /\ raw_audio \in ByteStrings
  /\ sample_rate \in SampleRates
  /\ audio_message = PyNone

NextAudio == FromRawAudio

SpecAudio == InitAudio /\ [][NextAudio]_vars

\* Validation of a Turn, repeated on the same data.
InitTurn ==
  /\ ParseIdle /\ AudioIdle
  /\ turn_input \in {TurnData(r, p) : r \in RoleInputs, p \in PartsInputs}
  /\ turn_results = << >>

NextTurn == ValidateTurn(MaxValidations)

SpecTurn == InitTurn /\ [][NextTurn]_vars

(***************************************************************************)
(* Properties.                                                             *)
(***************************************************************************)
IsServerEvent(v) == v.t = "model" /\ v.cls = "ServerEvent"

\* The records the call in progress has logged.
CallLog == SubSeq(log, log_start + 1, Len(log))

\* The value under key of a parsed object (Absent when there is none).
Member(v, key) == IF v.t = "dict" /\ key \in DOMAIN v.d THEN v.d[key] ELSE Absent
\* An object that has no such key.
Lacks(v, key) == v.t = "dict" /\ key \notin DOMAIN v.d
\* Some element of a parsed array satisfies P.
SomeItem(v, P(_)) == v.t = "list" /\ \E i \in 1..Len(v.items) : P(v.items[i])

\* C1: parse_server_event is total: whatever the text, the call never lets
\* an exception escape, and when it has finished it has returned either a
\* ServerEvent or None.
C1_Total ==
  /\ pc # "raised"
  /\ pc = "done" => (result = PyNone \/ IsServerEvent(result))

\* A text whose parsed value makes the probe raise TypeError has been
\* answered with None.
C1_Witness ==
  /\ pc = "done" /\ exc = "TypeError" /\ result = PyNone
  /\ message_str = <<"5">>

\* The validated value v holds exactly what the parsed value w holds: a
\* field sent is present with its wire value, a field not sent is None.
RECURSIVE Mirrors(_, _)
Mirrors(v, w) ==
  CASE v.t = "model" ->
         /\ w.t = "dict"
         /\ \A n \in DOMAIN v.f :
              IF n \in DOMAIN w.d
              THEN v.f[n] # PyNone /\ Mirrors(v.f[n], w.d[n])
              ELSE v.f[n] = PyNone
    [] v.t = "list" ->
         /\ w.t = "list"
         /\ Len(v.items) = Len(w.items)
         /\ \A i \in 1..Len(v.items) : Mirrors(v.items[i], w.items[i])
    [] v.t = "enum" -> w = PyStr(v.value)
    [] OTHER -> v = w

TopLevelFields == {Name.setupComplete, Name.serverContent, Name.toolCall, Name.usageMetadata}

\* C2: for every valid ServerEvent payload, whatever subset of the four
\* top-level fields it carries, parse_server_event returns an event in
\* which exactly the fields sent are present, with their wire values, and
\* every field not sent is None.
C2_PresentAndAbsentFields ==
  pc = "done" /\ message_str \in ValidPayloads =>
    /\ IsServerEvent(result)
    /\ DOMAIN result.f = TopLevelFields
    /\ Mirrors(result, json_loads(message_str).v)

\* {"serverContent": {"turnComplete": true}} alone: turnComplete is true,
\* modelTurn and interrupted are None, and so are the other three fields.
C2_Witness ==
  /\ pc = "done"
  /\ message_str = 
    (* {"serverContent": {"turnComplete": true}} *)
    <<"{", "\"", "s", "e", "r", "v", "e", "r", "C", "o", "n", "t", "e", "n",
    "t", "\"", ":", " ", "{", "\"", "t", "u", "r", "n", "C", "o", "m", "p",
    "l", "e", "t", "e", "\"", ":", " ", "t", "r", "u", "e", "}", "}">>
  /\ IsServerEvent(result)
  /\ result.f[Name.serverContent].f[Name.turnComplete] = PyBool(TRUE)
  /\ result.f[Name.serverContent].f[Name.modelTurn] = PyNone
  /\ result.f[Name.serverContent].f[Name.interrupted] = PyNone
  /\ result.f[Name.setupComplete] = PyNone
  /\ result.f[Name.toolCall] = PyNone
  /\ result.f[Name.usageMetadata] = PyNone

WireModalities == {Name.MODALITY_UNSPECIFIED, Name.TEXT, Name.IMAGE, Name.AUDIO, Name.VIDEO}
TokensDetails ==
  {Name.promptTokensDetails, Name.cacheTokensDetails,
   Name.responseTokensDetails, Name.toolUsePromptTokensDetails}

BadFunctionCall(fc) == Lacks(fc, Name.id) \/ Lacks(fc, Name.name) \/ Lacks(fc, Name.args)
BadPart(part) ==
  \/ Lacks(Member(part, Name.inlineData), Name.mimeType)
  \/ Lacks(Member(part, Name.inlineData), Name.data)
BadTokenCount(m) ==
  \/ Lacks(m, Name.tokenCount)
  \/ /\ Member(m, Name.modality) # Absent
     /\ \A w \in WireModalities : Member(m, Name.modality) # PyStr(w)

\* The parsed object w breaks a required-field rule or the Modality enum.
ViolatesSchemaRule(w) ==
  LET content == Member(w, Name.serverContent)
      tool == Member(w, Name.toolCall)
      usage == Member(w, Name.usageMetadata)
  IN  \/ Lacks(tool, Name.functionCalls)
      \/ SomeItem(Member(tool, Name.functionCalls), BadFunctionCall)
      \/ Lacks(Member(content, Name.modelTurn), Name.parts)
      \/ SomeItem(Member(Member(content, Name.modelTurn), Name.parts), BadPart)
      \/ Lacks(Member(content, Name.inputTranscription), Name.text)
      \/ Lacks(Member(content, Name.outputTranscription), Name.text)
      \/ \E k \in TokensDetails : SomeItem(Member(usage, k), BadTokenCount)

\* C3: a well-formed JSON object that breaks a required-field rule or the
\* closed Modality enum is answered with None, never with an event.
C3_SchemaViolationIsNone ==
  pc = "done" /\ json_loads(message_str).ok
    /\ ViolatesSchemaRule(json_loads(message_str).v) => result = PyNone

\* A token count whose modality is the lower-case "text" was rejected by
\* validation.
C3_Witness ==
  /\ pc = "done" /\ exc = "ValidationError" /\ result = PyNone
  /\ message_str =
       (* {"usageMetadata": {"promptTokensDetails": [{"modality": "text", "tokenCount": 3}]}} *)
       <<"{", "\"", "u", "s", "a", "g", "e", "M", "e", "t", "a", "d", "a",
       "t", "a", "\"", ":", " ", "{", "\"", "p", "r", "o", "m", "p", "t", "T",
       "o", "k", "e", "n", "s", "D", "e", "t", "a", "i", "l", "s", "\"", ":",
       " ", "[", "{", "\"", "m", "o", "d", "a", "l", "i", "t", "y", "\"", ":",
       " ", "\"", "t", "e", "x", "t", "\"", ",", " ", "\"", "t", "o", "k",
       "e", "n", "C", "o", "u", "n", "t", "\"", ":", " ", "3", "}", "]", "}",
       "}">>
  /\ ViolatesSchemaRule(json_loads(message_str).v)

\* The parsed value w without the members the model T does not declare.
RECURSIVE StripUnknown(_, _)
StripUnknown(T, w) ==
  CASE T.k = "model" /\ w.t = "dict" ->
         LET typeOf(n) == T.fields[CHOOSE i \in 1..Len(T.fields) : T.fields[i].name = n].type
             keep == DOMAIN w.d \cap {T.fields[i].name : i \in 1..Len(T.fields)}
         IN  PyDict([n \in keep |-> StripUnknown(typeOf(n), w.d[n])])
    [] T.k = "optional" -> StripUnknown(T.of, w)
    [] T.k = "list" /\ w.t = "list" ->
         PyList([i \in 1..Len(w.items) |-> StripUnknown(T.of, w.items[i])])
    [] OTHER -> w

\* Call j decoded the payload of call i with unknown fields added to it.
AddsUnknownFields(i, j) ==
  /\ history[i].message \in ValidPayloads
  /\ json_loads(history[j].message).ok
  /\ json_loads(history[j].message).v # json_loads(history[i].message).v
  /\ StripUnknown(ServerEvent, json_loads(history[j].message).v)
       = json_loads(history[i].message).v

\* C4: unknown fields are ignored: a valid payload with fields added that
\* the schema does not model, at the top level or inside a modelled object,
\* decodes to the same event as the payload without them.
C4_UnknownFieldsIgnored ==
  \A i, j \in 1..Len(history) :
    AddsUnknownFields(i, j) =>
      /\ IsServerEvent(history[i].result)
      /\ history[j].result = history[i].result

C4_Witness ==
  \E i, j \in 1..Len(history) :
    /\ AddsUnknownFields(i, j)
    /\ IsServerEvent(history[j].result)
    /\ history[j].result = history[i].result

\* C5: the logged excerpt of the raw text is the first 200 characters and
\* "..." when the text is longer than 200 characters, the whole text
\* otherwise.
C5_ExcerptBounded ==
  Len(CallLog) = 2 =>
    CallLog[2].text =
      IF Len(message_str) > 200
      THEN SubSeq(message_str, 1, 200) \o <<".", ".", ".">>
      ELSE message_str

\* A text of 201 characters was logged as 200 characters and the ellipsis.
C5_Witness ==
  /\ Len(CallLog) = 2
  /\ Len(message_str) = 201
  /\ Len(CallLog[2].text) = 203
  /\ SubSeq(CallLog[2].text, 201, 203) = <<".", ".", ".">>

\* base64.b64decode of a padded text.
B64Index(c) == (CHOOSE i \in 1..64 : B64Chars[i] = c) - 1
B64Sextet(c) == IF c = "=" THEN 0 ELSE B64Index(c)
b64decode(text) ==
  LET pads == Cardinality({i \in 1..Len(text) : text[i] = "="})
      bits(g) == B64Sextet(text[4 * g - 3]) * 262144 + B64Sextet(text[4 * g - 2]) * 4096
                   + B64Sextet(text[4 * g - 1]) * 64 + B64Sextet(text[4 * g])
      octet(i) == LET g == ((i - 1) \div 3) + 1
                  IN  CASE (i - 1) % 3 = 0 -> bits(g) \div 65536
                        [] (i - 1) % 3 = 1 -> (bits(g) \div 256) % 256
                        [] OTHER -> bits(g) % 256
  IN  [i \in 1..(3 * (Len(text) \div 4) - pads) |-> octet(i)]

IsBase64(text) ==
  /\ Len(text) % 4 = 0
  /\ \A i \in 1..Len(text) :
       \/ \E k \in 1..64 : B64Chars[k] = text[i]
       \/ text[i] = "=" /\ i >= Len(text) - 1 /\ (i = Len(text) \/ text[i + 1] = "=")

\* C6: from_raw_audio accepts every byte string and rate; the message has
\* exactly one chunk, whose data base64-decodes to the bytes given and
\* whose mimeType is "audio/pcm;rate=" followed by the rate.
C6_AudioRoundTrip ==
  audio_message # PyNone =>
    /\ audio_message.t = "model"
    /\ LET chunks == audio_message.f[Name.realtimeInput].f[Name.mediaChunks].items
           mime == chunks[1].f[Name.mimeType].s
           data == chunks[1].f[Name.data].s
           rate == SubSeq(mime, 16, Len(mime))
       IN  /\ Len(chunks) = 1
           /\ IsBase64(data)
           /\ b64decode(data) = raw_audio
           /\ SubSeq(mime, 1, 15) = 
             (* audio/pcm;rate= *)
             <<"a", "u", "d", "i", "o", "/", "p", "c", "m", ";", "r", "a",
             "t", "e", "=">>
           /\ StrIsInt(rate) /\ rate[1] # "+" /\ StrAsInt(rate) = sample_rate

\* Two bytes at a negative rate: one padded group, decoded back.
C6_Witness ==
  /\ audio_message # PyNone
  /\ raw_audio = <<0, 77>>
  /\ sample_rate = -1
  /\ audio_message.f[Name.realtimeInput].f[Name.mediaChunks].items[1].f[Name.data].s = <<"A", "E", "0", "=">>
  /\ audio_message.f[Name.realtimeInput].f[Name.mediaChunks].items[1].f[Name.mimeType].s
       = 
         (* audio/pcm;rate=-1 *)
         <<"a", "u", "d", "i", "o", "/", "p", "c", "m", ";", "r", "a", "t",
         "e", "=", "-", "1">>

RoleGiven == Name.role \in DOMAIN turn_input.d
BadRole ==
  RoleGiven /\ turn_input.d[Name.role] \notin {PyStr(Name.user), PyStr(Name.model)}
GoodRole ==
  RoleGiven /\ turn_input.d[Name.role] \in {PyStr(Name.user), PyStr(Name.model)}
PartsGiven ==
  /\ Name.parts \in DOMAIN turn_input.d
  /\ turn_input.d[Name.parts].t = "list"
  /\ \A i \in 1..Len(turn_input.d[Name.parts].items) :
       turn_input.d[Name.parts].items[i] \in ValidParts

\* C8: a Turn whose role is anything but exactly "user" or "model" is
\* rejected, with the same error each time; a Turn with one of those roles
\* and a list of parts is accepted and keeps its role.
C8_TurnRoleClosed ==
  \A i \in 1..Len(turn_results) :
    /\ BadRole =>
         /\ ~turn_results[i].ok
         /\ [loc |-> <<Name.role>>, type |-> "literal_error"] \in turn_results[i].errs
         /\ turn_results[i] = turn_results[1]
    /\ GoodRole /\ PartsGiven =>
         /\ turn_results[i].ok
         /\ turn_results[i].v.f[Name.role] = turn_input.d[Name.role]
         /\ Len(turn_results[i].v.f[Name.parts].items) = Len(turn_input.d[Name.parts].items)

\* The role "system" with a valid part was rejected twice.
C8_Witness ==
  /\ Len(turn_results) = 2
  /\ turn_input.t = "dict"
  /\ RoleGiven /\ turn_input.d[Name.role] = PyStr(<<"s", "y", "s", "t", "e", "m">>)
  /\ PartsGiven /\ Len(turn_input.d[Name.parts].items) = 1
  /\ ~turn_results[2].ok

\* C9: the grounding-metadata probe never changes the outcome: the call
\* returns an event exactly when the text parses as JSON and ServerEvent
\* validation accepts the parsed value.
C9_ProbeNeverChangesOutcome ==
  pc = "done" =>
    (IsServerEvent(result) <=>
       /\ json_loads(message_str).ok
       /\ model_validate(ServerEvent, json_loads(message_str).v).ok)

\* C10: a call that returns None has logged the error description and then
\* the raw-text excerpt before it returns; a call that returns an event has
\* logged nothing.
C10_DiagnosticsOnFailureOnly ==
  /\ pc = "try" => CallLog = << >>
  /\ pc = "except_return" \/ (pc = "done" /\ result = PyNone) =>
       /\ Len(CallLog) = 2
       /\ CallLog[1].label = "Error parsing server event"
       /\ CallLog[1].e = exc
       /\ CallLog[2].label = "Raw message (truncated)"
  /\ pc = "done" /\ result # PyNone => CallLog = << >>

\* A call on text that is not JSON has returned None after its two records.
C10_Witness ==
  /\ pc = "done" /\ result = PyNone /\ exc = "JSONDecodeError"
  /\ Len(CallLog) = 2
  /\ CallLog[1].label = "Error parsing server event"
  /\ CallLog[2].text = message_str
  /\ message_str = <<"{", "n", "o", "t", " ", "j", "s", "o", "n">>

=============================================================================
